---------------------------- MODULE Spec2Model ----------------------------
(***************************************************************************)
(* Model of the Sensei logistic-regression engine: the FeatureMapBase      *)
(* bimap, the JRenumbering, the CSR dependees and the RowExtender, the     *)
(* Stats, and the World choke points AddFeatures / RemoveAndRenumber, with *)
(* the commands of BatchTraining::RunCommand that drive them.              *)
(***************************************************************************)
EXTENDS Integers, Sequences, FiniteSets, TLC

VARIABLES
  fm,        \* a FeatureMapBase<Feature> used on its own (feature_map.h)
  fmEver,    \* keys ever handed to FeatureToJ on fm
  fmGone,    \* keys ever removed from fm by RemoveAndRenumberJs
  mu,        \* owner of ConcurrentHashMap::mutex_ of fm (0 = free)
  pc,        \* per thread: position inside FeatureMapBase::FeatureToJ
  tkey,      \* per thread: the key of the call in progress
  tj,        \* per thread: the J taken from j_sequence_ by the call in progress
  rets,      \* per key: the J's returned so far by FeatureToJ calls on it
  ncalls,    \* FeatureToJ calls started so far by the threads
  product_map,         \* World::product_map_, keyed by JProduct
  j_size,              \* World::j_size_
  model,               \* World::model_
  training_majorizer,  \* GradBoost::training_majorizer_ (of_j_)
  holdout_majorizer,   \* GradBoost::holdout_majorizer_ (of_j_)
  sgd,                 \* World::sgd_
  training,            \* Data::training_
  holdout,             \* Data::holdout_
  dependees,           \* Data::dependees_
  settings,            \* what the Set commands have established
  aborted,             \* a CHECK or LOG(FATAL) has ended the process
  op,                  \* the last command run
  command,             \* the config message of the last command run
  renumbering,         \* the JRenumbering of the last prune_features
  scores,              \* the row scores written by the last score_rows
  ncommands,           \* commands run so far
  pass,                \* the logs::GradBoostUpdateMinimum line of the last
                       \* MakeOnePass, with what its undo test read
  shards,              \* ShardSet::shards_ of a shard set read from many files
  stats_,              \* ShardSet::stats_ of that shard set
  shard_dependees,     \* the matrix its dependees_ points to
  pool,                \* the Stats::Pool of RecalcStats
  tasks,               \* FixedSizeThreadPool::tasks_ of its ParFor
  worker,              \* the threads of that thread pool
  main,                \* where the thread that called RecalcStats is
  applied,             \* the JRenumbering applied to the shard set
  flag,                \* the command list of the sensei.Flag given to Main
  files,               \* per path: the config::Command a from_file would read
  command_queue_,      \* BatchTraining::command_queue_
  executed,            \* the commands whose handlers have run, in order
  phase                \* where Main is: "flags", "construct", "run", "done"

mapVars == <<fm, fmEver, fmGone>>
thrVars == <<mu, pc, tkey, tj, rets, ncalls>>
worldVars == <<product_map, j_size, model, training_majorizer,
               holdout_majorizer, sgd, training, holdout, dependees, settings,
               aborted, op, command, renumbering, scores, ncommands, pass>>
statVars == <<shards, stats_, shard_dependees, pool, tasks, worker, main,
              applied>>
scriptVars == <<flag, files, command_queue_, executed, phase>>
restVars == <<statVars, scriptVars>>
vars == <<fm, fmEver, fmGone, mu, pc, tkey, tj, rets, ncalls,
          product_map, j_size, model, training_majorizer, holdout_majorizer,
          sgd, training, holdout, dependees, settings, aborted, op, command,
          renumbering, scores, ncommands, pass,
          shards, stats_, shard_dependees, pool, tasks, worker, main, applied,
          flag, files, command_queue_, executed, phase>>

---------------------------------------------------------------------------
(* Bounds of the model.                                                    *)
NumKeys == 4          \* distinct keys offered to the stand-alone map
ConcKeys == 2         \* distinct keys offered by the concurrent callers
NumThreads == 2       \* threads calling FeatureToJ concurrently
MaxCalls == 4         \* FeatureToJ calls made by the threads altogether
NumAtoms == 3         \* atomic features of the data set that is read
MaxCommands == 4      \* commands in one run of the program
MaxWeight == 2        \* largest weight the optimizers are let to reach

(* Program constants.                                                      *)
\* static_cast<uint32>(-1): the J that is no J.  It is only ever compared for
\* equality, so the cast is left unevaluated.
kInvalidJ == -1

\* std::numeric_limits<Double>::infinity(), as the largest number there is.
kInfinity == 2147483647

\* concurrency::kThreadCount
kThreadCount == 4

MapKeys == 1..NumKeys
Threads == 1..NumThreads
\* The J's FeatureMap gives the atomic features, and the JProducts over them.
Atoms == 0..(NumAtoms - 1)
JProducts == SUBSET Atoms

---------------------------------------------------------------------------
(* Generic helpers.                                                        *)
Range(from, to) == from..(to - 1)

SeqToSet(s) == {s[i] : i \in 1..Len(s)}

RECURSIVE SetToSortedSeq(_)
SetToSortedSeq(S) ==
  IF S = {} THEN <<>>
  ELSE LET m == CHOOSE x \in S : \A y \in S : x <= y
       IN <<m>> \o SetToSortedSeq(S \ {m})

---------------------------------------------------------------------------
(* JRenumbering (j_renumbering.h).  A renumbering is the record            *)
(* [j2n |-> j_to_new_j_, next |-> next_j_]; vectors are 1-based here, so   *)
(* the entry of J j is j2n[j + 1].                                         *)

\* FillJToNewJ: every entry still 0 gets the next consecutive number.
RECURSIVE FillFrom(_, _, _)
FillFrom(v, i, next) ==
  IF i > Len(v) THEN [j2n |-> v, next |-> next]
  ELSE IF v[i] = 0 THEN FillFrom([v EXCEPT ![i] = next], i + 1, next + 1)
       ELSE FillFrom(v, i + 1, next)

\* FillJToNewJ that hands the consecutive numbers out from the top down.
FillJToNewJBackwards(r) ==
  LET f == FillFrom(r.j2n, 1, r.next)
  IN [f EXCEPT !.j2n = [i \in 1..Len(f.j2n) |->
                          IF f.j2n[i] = kInvalidJ THEN kInvalidJ
                          ELSE f.next - 1 - f.j2n[i]]]

FillJToNewJ(r) == FillFrom(r.j2n, 1, r.next)

\* Named constructor RemoveJs: js_to_remove is the set of J's whose bit is set.
RemoveJs(size, js_to_remove) ==
  FillJToNewJ([j2n |-> [i \in 1..size |->
                          IF (i - 1) \in js_to_remove THEN kInvalidJ ELSE 0],
               next |-> 0])

IsNoOp(r) == \A i \in 1..Len(r.j2n) : r.j2n[i] = i - 1

NewJToOldJ(r) ==
  [n \in 1..r.next |->
     IF \E o \in 1..Len(r.j2n) : r.j2n[o] = n - 1
     THEN (CHOOSE o \in 1..Len(r.j2n) : r.j2n[o] = n - 1) - 1
     ELSE kInvalidJ]

\* RenumberIndicies: the element at j moves to j_to_new_j_[j]; a slot nobody
\* moves to keeps the value-initialised element `zero`.
RenumberIndicies(r, v, zero) ==
  IF Len(r.j2n) = 0 THEN v
  ELSE [n \in 1..r.next |->
          IF \E o \in 1..Len(v) : r.j2n[o] = n - 1
          THEN v[CHOOSE o \in 1..Len(v) : r.j2n[o] = n - 1]
          ELSE zero]

\* RemoveAndRenumberJsTo: the kept J's of a row, renumbered, in row order.
RECURSIVE RemoveAndRenumberJsTo(_, _)
RemoveAndRenumberJsTo(r, js) ==
  IF Len(js) = 0 THEN <<>>
  ELSE LET n == r.j2n[Head(js) + 1]
       IN (IF n = kInvalidJ THEN <<>> ELSE <<n>>)
          \o RemoveAndRenumberJsTo(r, Tail(js))

---------------------------------------------------------------------------
(* FeatureMapBase (feature_map.h) over ConcurrentHashMap                   *)
(* (concurrent_hash_map.h).  A map is the record                           *)
(*   tab    : key -> [st, j]   contents_: st = "absent" (no entry),        *)
(*                             "null" (entry holding nullptr),             *)
(*                             "rec" (entry holding a FeatureAndJ with j_) *)
(*   seq    : j_sequence_                                                  *)
(*   synced : j_to_feature_synced_                                         *)
(*   jtf    : j_to_feature_, each slot <<k>> for a pointer to the record   *)
(*            of key k and <<>> for nullptr.                               *)

NoEntry == [st |-> "absent", j |-> 0]
NullEntry == [st |-> "null", j |-> 0]
RecEntry(j) == [st |-> "rec", j |-> j]

\* ok is FALSE once a CHECK of the map has fired (the process is gone).
NewMap(keys) ==
  [tab |-> [k \in keys |-> NoEntry], seq |-> 0, synced |-> TRUE, jtf |-> <<>>,
   ok |-> TRUE]

Size(m) == m.seq

\* Reservation(h, key): finds the entry of key, inserting (key, nullptr) when
\* there is none.
Reserve(m, k) ==
  IF m.tab[k].st = "absent" THEN [m EXCEPT !.tab[k] = NullEntry] ELSE m

\* Reservation::empty() on the entry of k.
Empty(m, k) == m.tab[k].st # "rec"

\* FeatureToJ as one uninterrupted call: [map, j].
FeatureToJ(m, k) ==
  LET r == Reserve(m, k)
  IN IF Empty(r, k)
     THEN [map |-> [r EXCEPT !.tab[k] = RecEntry(r.seq),
                             !.seq = r.seq + 1,
                             !.synced = FALSE],
           j |-> r.seq]
     ELSE [map |-> r, j |-> r.tab[k].j]

\* FeatureToJConst: [map, j]; the reservation it takes is the inserting one.
FeatureToJConst(m, k) ==
  LET r == Reserve(m, k)
  IN [map |-> r, j |-> IF Empty(r, k) THEN kInvalidJ ELSE r.tab[k].j]

\* HasFeature: [map, has].
HasFeature(m, k) ==
  LET r == Reserve(m, k)
  IN [map |-> r, has |-> ~Empty(r, k)]

RecKeys(m) == {k \in DOMAIN m.tab : m.tab[k].st = "rec"}
NullKeys(m) == {k \in DOMAIN m.tab : m.tab[k].st = "null"}
ValidKeys(m) == {k \in RecKeys(m) : m.tab[k].j # kInvalidJ}

\* The loop `for (Reservation r(map); !r.empty(); ++r)` visits the entries in
\* the unordered_map's order and stops at the first nullptr entry: with no
\* nullptr entry it visits every record, otherwise any set of records may come
\* before the first nullptr.
VisitSets(m) ==
  IF NullKeys(m) = {} THEN {RecKeys(m)} ELSE SUBSET RecKeys(m)

\* SyncJToFeatureMap over the visited records; ok becomes FALSE when a CHECK
\* or LOG(FATAL) of the function fires.
SyncVisited(m, visited) ==
  IF m.synced THEN m
  ELSE
    LET valid == {k \in visited : m.tab[k].j # kInvalidJ}
        holder(j) == {k \in valid : m.tab[k].j = j}
        jtf == [n \in 1..m.seq |->
                  IF holder(n - 1) = {} THEN <<>>
                  ELSE <<CHOOSE k \in holder(n - 1) : TRUE>>]
        ok == /\ Cardinality(DOMAIN m.tab \ {k \in DOMAIN m.tab :
                                               m.tab[k].st = "absent"}) >= m.seq
              /\ \A k \in valid : m.tab[k].j < m.seq
              /\ \A k1, k2 \in valid : m.tab[k1].j = m.tab[k2].j => k1 = k2
              /\ Cardinality(valid) = m.seq
    IN IF ok THEN [m EXCEPT !.jtf = jtf, !.synced = TRUE]
       ELSE [m EXCEPT !.jtf = jtf, !.ok = FALSE]

\* FeatureAndJ::RenumberJs.
RenumberJs(r, j) == r.j2n[j + 1]

\* RemoveAndRenumberJs without `j_to_feature_synced_ = false`: the closing
\* SyncJToFeatureMap returns at once whenever the map was synced before.
MapRemoveVisitedStale(m, r, visited) ==
  IF Len(r.j2n) = 0 THEN m
  ELSE
    LET newj(k) == IF m.tab[k].j # kInvalidJ THEN RenumberJs(r, m.tab[k].j)
                   ELSE kInvalidJ
        tab == [k \in DOMAIN m.tab |->
                  IF k \in visited THEN RecEntry(newj(k)) ELSE NoEntry]
        valid_j_count == Cardinality({k \in visited : newj(k) # kInvalidJ})
        moved == [m EXCEPT !.tab = tab, !.seq = r.next]
    IN IF valid_j_count # r.next THEN [moved EXCEPT !.ok = FALSE]
       ELSE SyncVisited(moved, RecKeys(moved))

\* FeatureMapBase::RemoveAndRenumberJs over the visited records.
MapRemoveVisited(m, r, visited) ==
  IF Len(r.j2n) = 0 THEN m
  ELSE
    LET newj(k) == IF m.tab[k].j # kInvalidJ THEN RenumberJs(r, m.tab[k].j)
                   ELSE kInvalidJ
        tab == [k \in DOMAIN m.tab |->
                  IF k \in visited THEN RecEntry(newj(k)) ELSE NoEntry]
        valid_j_count == Cardinality({k \in visited : newj(k) # kInvalidJ})
        moved == [m EXCEPT !.tab = tab, !.seq = r.next, !.synced = FALSE]
    IN IF valid_j_count # r.next THEN [moved EXCEPT !.ok = FALSE]
       ELSE SyncVisited(moved, RecKeys(moved))

\* JToFeature, where the CHECKs of the function pass.
JToFeatureDefined(m, j) == m.synced /\ j < Len(m.jtf)
JToFeature(m, j) == m.jtf[j + 1][1]

---------------------------------------------------------------------------
(* CsrMatrix (csr_matrix.h).  The dependees matrix is the sequence of its  *)
(* rows; row j + 1 holds the children of J j in the order of contents_.    *)
(* A CooMatrix is [contents |-> sequence of <<row, column>>, row_count].   *)

GetRow(m, i) == m[i + 1]

RowCount(m) == Len(m)

RECURSIVE NonZerosCount(_)
NonZerosCount(m) ==
  IF Len(m) = 0 THEN 0 ELSE Len(Head(m)) + NonZerosCount(Tail(m))

\* CsrMatrix::SetRowCount, where its CHECK_GE(size, RowCount()) passes.
SetRowCount(m, size) == m \o [i \in 1..(size - Len(m)) |-> <<>>]

RECURSIVE RowCoords(_, _)
RowCoords(i, js) ==
  IF Len(js) = 0 THEN <<>> ELSE <<<<i, Head(js)>>>> \o RowCoords(i, Tail(js))

RECURSIVE CoordsFrom(_, _)
CoordsFrom(m, i) ==
  IF i >= Len(m) THEN <<>>
  ELSE RowCoords(i, GetRow(m, i)) \o CoordsFrom(m, i + 1)

ToCooMatrix(m) == [contents |-> CoordsFrom(m, 0), row_count |-> RowCount(m)]

SetTrue(coo, row, column) ==
  [coo EXCEPT !.contents = Append(@, <<row, column>>)]

PairLess(p, q) == p[1] < q[1] \/ (p[1] = q[1] /\ p[2] < q[2])

\* std::sort of the coordinate pairs.
RECURSIVE SortPairs(_)
SortPairs(ps) ==
  IF Len(ps) = 0 THEN <<>>
  ELSE LET i == CHOOSE i \in 1..Len(ps) :
                  \A k \in 1..Len(ps) : ~PairLess(ps[k], ps[i])
       IN <<ps[i]>> \o SortPairs([k \in 1..(Len(ps) - 1) |->
                                    IF k < i THEN ps[k] ELSE ps[k + 1]])

Sort(coo) == [coo EXCEPT !.contents = SortPairs(@)]

RECURSIVE ColumnsOf(_, _)
ColumnsOf(ps, i) ==
  IF Len(ps) = 0 THEN <<>>
  ELSE (IF Head(ps)[1] = i THEN <<Head(ps)[2]>> ELSE <<>>)
       \o ColumnsOf(Tail(ps), i)

\* A FromCooMatrix without its last loop: the rows after the row of the last
\* pair are not closed.
FromCooMatrixUnclosed(coo) ==
  LET rows == IF Len(coo.contents) = 0 THEN 0
              ELSE coo.contents[Len(coo.contents)][1] + 1
  IN [i \in 1..rows |-> ColumnsOf(coo.contents, i - 1)]

\* FromCooMatrix of a sorted CooMatrix: boundaries_ closes the rows below
\* the row of the last pair and then the rows up to row_count.
FromCooMatrix(coo) ==
  LET last == IF Len(coo.contents) = 0 THEN 0
              ELSE coo.contents[Len(coo.contents)][1]
      rows == IF coo.row_count > last THEN coo.row_count ELSE last
  IN [i \in 1..rows |-> ColumnsOf(coo.contents, i - 1)]

\* CsrMatrix::RemoveAndRenumberJs: every row loses its removed J's.
CsrRemoveAndRenumberJs(m, r) ==
  IF Len(r.j2n) = 0 THEN m
  ELSE [i \in 1..Len(m) |-> RemoveAndRenumberJsTo(r, m[i])]

\* RemoveAndRenumberRows that cuts the matrix to next_j rows where they are.
CsrKeepRows(m, r) ==
  IF Len(r.j2n) = 0 THEN m ELSE [n \in 1..r.next |-> m[n]]

\* CsrMatrix::RemoveAndRenumberRows: row new_j is the old row of its old J.
CsrRemoveAndRenumberRows(m, r) ==
  IF Len(r.j2n) = 0 THEN m
  ELSE [n \in 1..r.next |-> GetRow(m, NewJToOldJ(r)[n])]

---------------------------------------------------------------------------
(* RowExtender (row_extender.h).                                           *)

\* The inner loop of ExtendSparseBool over the children of one J:
\* st = [row |-> rewritten_row_, d |-> dependencies_].
RECURSIVE VisitChildren(_, _)
VisitChildren(children, st) ==
  IF Len(children) = 0 THEN st
  ELSE LET child_j == Head(children)
           d == st.d[child_j] + 1
       IN VisitChildren(Tail(children),
            [row |-> IF d = 2 THEN Append(st.row, child_j) ELSE st.row,
             d |-> [st.d EXCEPT ![child_j] = d]])

\* The outer loop, whose bound rewritten_row_.size() grows while it runs.
RECURSIVE ExtendFrom(_, _, _)
ExtendFrom(dep, st, i) ==
  IF i > Len(st.row) THEN st.row
  ELSE CHOOSE out \in {ExtendFrom(dep, visited, i + 1) :
                         visited \in {VisitChildren(GetRow(dep, st.row[i]),
                                                    st)}} : TRUE

\* ExtendSparseBool that looks at the children of the J's the row came with
\* and not at those of the J's it has appended.
ExtendOnce(dep, js) ==
  js \o SetToSortedSeq(
          {c \in 0..(Len(dep) - 1) :
             Cardinality({i \in 1..Len(js) :
                            c \in SeqToSet(GetRow(dep, js[i]))}) = 2})

ExtendSparseBool(dep, js) ==
  ExtendFrom(dep, [row |-> js, d |-> [j \in 0..(Len(dep) - 1) |-> 0]], 1)

\* ResetRow followed by SparseBool().
SparseBool(dep, js) ==
  IF NonZerosCount(dep) # 0 THEN ExtendSparseBool(dep, js) ELSE js

\* SparseDot of the extended row with a dense w.
RECURSIVE SparseDot(_, _)
SparseDot(js, w) ==
  IF Len(js) = 0 THEN 0 ELSE w[Head(js) + 1] + SparseDot(Tail(js), w)

Dot(dep, js, w) == SparseDot(SparseBool(dep, js), w)

---------------------------------------------------------------------------
(* Stats and ShardSet (data.h).  A shard set is                            *)
(*   [rows |-> sequence of [js, y, id], stats |-> Stats];                  *)
(* its rows are in one shard (max_shard_size_ is 1 << 20).  The hash_ of   *)
(* Stats is left out.                                                      *)

Zeros(size) == [j \in 1..size |-> 0]

\* Stats::Reset
StatsReset(size) ==
  [positive |-> Zeros(size), negative |-> Zeros(size),
   positive_row_count |-> 0, negative_row_count |-> 0]

RECURSIVE CountJs(_, _)
CountJs(v, js) ==
  IF Len(js) = 0 THEN v
  ELSE CountJs([v EXCEPT ![Head(js) + 1] = @ + 1], Tail(js))

\* Stats::AddRow, where CHECK_LT(j, stats->size()) passes.
StatsAddRow(s, js, y) ==
  IF y = 1
  THEN [s EXCEPT !.positive = CountJs(@, js), !.positive_row_count = @ + 1]
  ELSE [s EXCEPT !.negative = CountJs(@, js), !.negative_row_count = @ + 1]

\* Stats::Add that takes the counts of src in place of adding them.
StatsAddLast(s, src) == src

\* Stats::Add
StatsAdd(s, src) ==
  [positive |-> [j \in 1..Len(s.positive) |-> s.positive[j] + src.positive[j]],
   negative |-> [j \in 1..Len(s.negative) |-> s.negative[j] + src.negative[j]],
   positive_row_count |-> s.positive_row_count + src.positive_row_count,
   negative_row_count |-> s.negative_row_count + src.negative_row_count]

\* Stats::RemoveAndRenumberJs
StatsRemoveAndRenumberJs(s, r) ==
  [s EXCEPT !.positive = RenumberIndicies(r, @, 0),
            !.negative = RenumberIndicies(r, @, 0)]

StatsSize(s) == Len(s.positive)

StatsRowCount(s) == s.positive_row_count + s.negative_row_count

XjBoolCountOfJ(s, j) == s.negative[j + 1] + s.positive[j + 1]

\* floor(log2(n)) for n >= 1.
RECURSIVE Log2(_)
Log2(n) == IF n <= 1 THEN 0 ELSE 1 + Log2(n \div 2)

\* Stats::LogOdds: log(pos / neg) with a zero count taken as 1; the logarithm
\* of each count is rounded down to a whole number of bits.
LogOdds(s, j) ==
  LET pos == IF s.positive[j + 1] = 0 THEN 1 ELSE s.positive[j + 1]
      neg == IF s.negative[j + 1] = 0 THEN 1 ELSE s.negative[j + 1]
  IN Log2(pos) - Log2(neg)

\* The rows of a shard set counted into one Stats: what RecalcStats leaves
\* in stats_ (its workers are the subject of the statistics specification).
RECURSIVE AddRows(_, _, _)
AddRows(s, dep, rows) ==
  IF Len(rows) = 0 THEN s
  ELSE AddRows(StatsAddRow(s, SparseBool(dep, Head(rows).js), Head(rows).y),
               dep, Tail(rows))

RecalcStats(shard_set, dep, new_size) ==
  [shard_set EXCEPT !.stats = AddRows(StatsReset(new_size), dep, shard_set.rows)]

\* ShardSet::RemoveAndRenumberJs
ShardSetRemoveAndRenumberJs(shard_set, r) ==
  [rows |-> [i \in 1..Len(shard_set.rows) |->
               [shard_set.rows[i] EXCEPT !.js =
                  IF Len(r.j2n) = 0 THEN @ ELSE RemoveAndRenumberJsTo(r, @)]],
   stats |-> StatsRemoveAndRenumberJs(shard_set.stats, r)]

\* ShardSet()
NewShardSet == [rows |-> <<>>, stats |-> StatsReset(0)]

---------------------------------------------------------------------------
(* Model (model.h).  precision and loss_derivative keep their length; the  *)
(* numbers in them are left out (0).  training and holdout are the wxs of  *)
(* the two PerShard members.                                               *)

\* Model()
NewModel ==
  [w |-> <<>>, delta_w |-> <<>>, precision |-> <<>>, loss_derivative |-> <<>>,
   creation_time |-> <<>>, current_creation_time |-> 0,
   prev_total_loss |-> kInfinity, total_loss |-> kInfinity,
   synced_with_weights |-> FALSE, training |-> <<>>, holdout |-> <<>>]

\* MildResize: resize(size) cuts the vector or appends value-initialised
\* elements.
MildResize(size, v, zero) ==
  [i \in 1..size |-> IF i <= Len(v) THEN v[i] ELSE zero]

GetSize(m) == Len(m.w)

\* Model::SetSize
ModelSetSize(m, size) ==
  LET oldsize == Len(m.w)
      time == m.current_creation_time + 1
      resized == MildResize(size, m.creation_time, 0)
  IN [m EXCEPT !.current_creation_time = time,
               !.precision = MildResize(size, @, 0),
               !.w = MildResize(size, @, 0),
               !.delta_w = MildResize(size, @, 0),
               !.loss_derivative = MildResize(size, @, 0),
               !.creation_time = [i \in 1..size |->
                                    IF i > oldsize THEN time ELSE resized[i]]]

\* Model::SetTotalLoss
SetTotalLoss(m, new_total_loss) ==
  [m EXCEPT !.prev_total_loss = m.total_loss, !.total_loss = new_total_loss]

\* Model::InitPerShards
InitPerShards(m, training_size, holdout_size) ==
  [m EXCEPT !.training = Zeros(training_size), !.holdout = Zeros(holdout_size)]

\* Model::RemoveAndRenumberJs that cuts the vectors to next_j entries and
\* leaves every entry where it is.
ModelCutJs(m, r) ==
  IF Len(r.j2n) = 0 THEN m
  ELSE [m EXCEPT !.precision = MildResize(r.next, @, 0),
                 !.w = MildResize(r.next, @, 0),
                 !.delta_w = MildResize(r.next, @, 0),
                 !.loss_derivative = MildResize(r.next, @, 0),
                 !.creation_time = MildResize(r.next, @, 0)]

\* Model::RemoveAndRenumberJs
ModelRemoveAndRenumberJs(m, r) ==
  [m EXCEPT !.precision = RenumberIndicies(r, @, 0),
            !.w = RenumberIndicies(r, @, 0),
            !.delta_w = RenumberIndicies(r, @, 0),
            !.loss_derivative = RenumberIndicies(r, @, 0),
            !.creation_time = RenumberIndicies(r, @, 0)]

---------------------------------------------------------------------------
(* GradBoost and Majorizer (optimizers.h).  A majorizer is                 *)
(* [of_j, log_loss]: the Dim1Majorizer of every J, with the coefficients   *)
(* left out (0), and log_loss_.  The loss of a row is a whole number that, *)
(* like log(1 + exp(wxy)) - wxy, depends on w only through the row's wx    *)
(* and shrinks as y * wx grows.  Of the Regularizations only               *)
(* regularization { l1 } is kept: L1 is l1 and L2 is 0 for every J.        *)

\* Majorizer()
NewMajorizer == [of_j |-> <<>>, log_loss |-> 0]

\* Majorizer::SetSize
MajorizerSetSize(mj, size) == [mj EXCEPT !.of_j = MildResize(size, @, 0)]

\* Majorizer::RemoveAndRenumberJs
MajorizerRemoveAndRenumberJs(mj, r) ==
  [mj EXCEPT !.of_j = RenumberIndicies(r, @, 0)]

\* Majorizer::GetRegularizationLoss: the sum of L1 * fabs(w) over the J's.
RECURSIVE GetRegularizationLoss(_, _)
GetRegularizationLoss(l1, w) ==
  IF Len(w) = 0 THEN 0
  ELSE l1 * (IF Head(w) < 0 THEN 0 - Head(w) ELSE Head(w))
       + GetRegularizationLoss(l1, Tail(w))

RowLoss(wx, y) == IF wx * y >= 1 THEN 0 ELSE 1 - wx * y

RECURSIVE LogLoss(_, _, _)
LogLoss(rows, dep, w) ==
  IF Len(rows) = 0 THEN 0
  ELSE RowLoss(Dot(dep, Head(rows).js, w), Head(rows).y)
       + LogLoss(Tail(rows), dep, w)

\* ProcessShardSet: the wxs it leaves in the PerShard.
ProcessShardSet(shard_set, dep, w) ==
  [i \in 1..Len(shard_set.rows) |-> Dot(dep, shard_set.rows[i].js, w)]

\* The CHECK_GT of CpuOperationCountDeepMaterialization.
ChildrenAbove(dep) ==
  \A j \in 0..(Len(dep) - 1) :
    \A k \in 1..Len(GetRow(dep, j)) : GetRow(dep, j)[k] > j

\* GradBoost::SyncModelWithWeights: [model, tm, hm, ok], tm and hm the two
\* majorizers; ok = FALSE when a CHECK of AddIterationLog fires.  The
\* majorizers keep their length.
SyncModelWithWeights(m, tm, hm, dep, tr, ho, l1) ==
  IF m.synced_with_weights THEN [model |-> m, tm |-> tm, hm |-> hm, ok |-> TRUE]
  ELSE
    LET tm1 == [tm EXCEPT !.log_loss = LogLoss(tr.rows, dep, m.w)]
        hm1 == [hm EXCEPT !.log_loss = LogLoss(ho.rows, dep, m.w)]
        total_loss == tm1.log_loss + GetRegularizationLoss(l1, m.w)
        synced == [SetTotalLoss(m, total_loss) EXCEPT
                     !.training = ProcessShardSet(tr, dep, m.w),
                     !.holdout = ProcessShardSet(ho, dep, m.w),
                     !.synced_with_weights = TRUE,
                     !.loss_derivative = Zeros(Len(tm.of_j))]
        ok == /\ Len(tm.of_j) = Len(m.w)
              /\ StatsRowCount(ho.stats) > 0 => Len(hm.of_j) = Len(m.w)
              /\ ChildrenAbove(dep)
    IN [model |-> synced, tm |-> tm1, hm |-> hm1, ok |-> ok]

\* The steps new_w - w that the coordinate-wise minimum can come out as:
\* nothing, or one weight moved by one, inside the weight range.
Steps(w) ==
  {Zeros(Len(w))} \cup
  {[i \in 1..Len(w) |-> IF i = j THEN d ELSE 0] :
     j \in 1..Len(w), d \in {-1, 1}}

InRange(w) == \A i \in 1..Len(w) : w[i] <= MaxWeight /\ w[i] >= 0 - MaxWeight

\* The undo test of UpdateMinimum: total_loss is log_loss_ of the training
\* majorizer plus the regularization loss at the model's w.
Undoes(m, tm, l1, allow_undo) ==
  allow_undo /\ tm.log_loss + GetRegularizationLoss(l1, m.w) > m.prev_total_loss

\* An UpdateMinimum that leaves synced_with_weights as it found it.
UpdateMinimumSynced(m, tm, l1, allow_undo, delta, restart) ==
  IF Undoes(m, tm, l1, allow_undo)
  THEN [m EXCEPT
          !.prev_total_loss = kInfinity,
          !.w = [j \in 1..Len(m.w) |-> m.w[j] - m.delta_w[j]],
          !.delta_w = Zeros(Len(m.w))]
  ELSE IF restart
  THEN [m EXCEPT !.delta_w = Zeros(Len(m.w))]
  ELSE [m EXCEPT
          !.w = [j \in 1..Len(m.w) |-> m.w[j] + delta[j]],
          !.delta_w = delta]

\* An UpdateMinimum whose undo restores w and keeps delta_w.
UpdateMinimumKeepsDelta(m, tm, l1, allow_undo, delta, restart) ==
  LET touched == [m EXCEPT !.synced_with_weights = FALSE]
  IN IF Undoes(m, tm, l1, allow_undo)
     THEN [touched EXCEPT
             !.prev_total_loss = kInfinity,
             !.w = [j \in 1..Len(m.w) |-> m.w[j] - m.delta_w[j]]]
     ELSE IF restart
     THEN [touched EXCEPT !.delta_w = Zeros(Len(m.w))]
     ELSE [touched EXCEPT
             !.w = [j \in 1..Len(m.w) |-> m.w[j] + delta[j]],
             !.delta_w = delta]

\* Majorizer::UpdateMinimum with the step delta and, for a step taken with
\* inertia, whether the product of loss derivative and step came out
\* positive (restart).  Where its CHECKs pass.
UpdateMinimum(m, tm, l1, allow_undo, delta, restart) ==
  LET touched == [m EXCEPT !.synced_with_weights = FALSE]
  IN IF Undoes(m, tm, l1, allow_undo)
     THEN [touched EXCEPT
             !.prev_total_loss = kInfinity,
             !.w = [j \in 1..Len(m.w) |-> m.w[j] - m.delta_w[j]],
             !.delta_w = Zeros(Len(m.w))]
     ELSE IF restart
     THEN [touched EXCEPT !.delta_w = Zeros(Len(m.w))]
     ELSE [touched EXCEPT
             !.w = [j \in 1..Len(m.w) |-> m.w[j] + delta[j]],
             !.delta_w = delta]

---------------------------------------------------------------------------
(* The stand-alone feature map: FeatureToJ, RemoveAndRenumberJs and        *)
(* SyncJToFeatureMap called one after another by a single thread.          *)

InitThreads ==
  /\ mu = 0
  /\ pc = [t \in Threads |-> "idle"]
  /\ tkey = [t \in Threads |-> 0]
  /\ tj = [t \in Threads |-> 0]
  /\ rets = [k \in MapKeys |-> {}]
  /\ ncalls = 0

\* The World as its constructor and BatchTraining::Init leave it.
NoRenumbering == [j2n |-> <<>>, next |-> 0]

\* The config of a command that has no field this model reads.
NoConfig == <<>>

\* No MakeOnePass has run.
NoPass ==
  [kind |-> "none", prev_at_test |-> kInfinity, follows_undo |-> FALSE, n |-> 0]

\* Sgd::Sgd.  weights_length is weights_.length(); learning_rate_ is kept as
\* its four has_ and value fields.
NewSgd ==
  [weights_length |-> 0, has_start_learning_rate |-> FALSE,
   start_learning_rate |-> 0, decay_speed |-> 0,
   learning_rate_counter_ |-> 0, prev_total_loss_ |-> kInfinity,
   training_mode_ |-> "ALL_FEATURES", deterministic_ |-> FALSE,
   weights_ |-> <<>>]

InitWorld ==
  /\ product_map = NewMap(JProducts)
  /\ j_size = 0
  /\ model = NewModel
  /\ training_majorizer = NewMajorizer
  /\ holdout_majorizer = NewMajorizer
  /\ sgd = NewSgd
  /\ training = NewShardSet
  /\ holdout = NewShardSet
  /\ dependees = <<>>
  /\ settings = [allow_undo |-> FALSE, has_data |-> FALSE, l1 |-> 0]
  /\ aborted = FALSE
  /\ op = "none"
  /\ command = NoConfig
  /\ renumbering = NoRenumbering
  /\ scores = <<>>
  /\ ncommands = 0
  /\ pass = NoPass

\* No Main is running a script.
IdleScript ==
  /\ flag = <<>>
  /\ files = <<>>
  /\ command_queue_ = <<>>
  /\ executed = <<>>
  /\ phase = "done"

\* No RecalcStats of the many-shard shard set is under way.
IdleStats ==
  /\ shards = <<>>
  /\ stats_ = StatsReset(0)
  /\ shard_dependees = <<>>
  /\ pool = [contents |-> <<>>, num_grabbed |-> 0, max_size |-> 0]
  /\ tasks = <<>>
  /\ worker = [t \in 1..kThreadCount |-> [pc |-> "wait"]]
  /\ main = [pc |-> "idle", i |-> 0]
  /\ applied = NoRenumbering

InitMap ==
  /\ fm = NewMap(MapKeys)
  /\ fmEver = {}
  /\ fmGone = {}
  /\ InitThreads
  /\ InitWorld
  /\ IdleStats
  /\ IdleScript

\* fm.FeatureToJ(k)
MapIntern(k) ==
  /\ fm.ok
  /\ fm' = FeatureToJ(fm, k).map
  /\ fmEver' = fmEver \cup {k}
  /\ UNCHANGED fmGone
  /\ UNCHANGED thrVars
  /\ UNCHANGED worldVars
  /\ UNCHANGED restVars

\* fm.RemoveAndRenumberJs(JRenumbering::RemoveJs(bits of js))
MapRemove(js) ==
  /\ fm.ok
  /\ \E visited \in VisitSets(fm) :
       fm' = MapRemoveVisited(fm, RemoveJs(Size(fm), js), visited)
  /\ fmGone' = fmGone \cup {k \in ValidKeys(fm) : fm.tab[k].j \in js}
  /\ UNCHANGED fmEver
  /\ UNCHANGED thrVars
  /\ UNCHANGED worldVars
  /\ UNCHANGED restVars

\* fm.SyncJToFeatureMap()
MapSync ==
  /\ fm.ok
  /\ \E visited \in VisitSets(fm) : fm' = SyncVisited(fm, visited)
  /\ UNCHANGED <<fmEver, fmGone>>
  /\ UNCHANGED thrVars
  /\ UNCHANGED worldVars
  /\ UNCHANGED restVars

NextMap ==
  \/ \E k \in MapKeys : MapIntern(k)
  \/ \E js \in SUBSET Range(0, Size(fm)) : MapRemove(js)
  \/ MapSync

SpecMap == InitMap /\ [][NextMap]_vars

\* Keys interned and never removed.
LiveKeys == fmEver \ fmGone

\* C4: whenever the map is synced (after SyncJToFeatureMap, which
\* RemoveAndRenumberJs also ends with), every key that was interned and not
\* removed satisfies JToFeature(FeatureToJ(k)) = k, and two such keys have the
\* same J exactly when they are the same key.
C4_BimapRoundTrip ==
  (fm.ok /\ fm.synced) =>
    /\ \A k \in LiveKeys :
         LET j == FeatureToJ(fm, k).j
         IN /\ FeatureToJ(fm, k).map = fm
            /\ JToFeatureDefined(fm, j)
            /\ JToFeature(fm, j) = k
    /\ \A k1, k2 \in LiveKeys :
         (FeatureToJ(fm, k1).j = FeatureToJ(fm, k2).j) <=> (k1 = k2)

\* Synced after a removal that renumbered a surviving key, with two live keys.
C4_Witness ==
  /\ fm.ok /\ fm.synced
  /\ fmGone # {}
  /\ Cardinality(LiveKeys) >= 2
  /\ \E k \in LiveKeys : fm.tab[k].j = 0 /\ k # 1

---------------------------------------------------------------------------
(* Concurrent FeatureToJ calls on one map.  A call is the steps            *)
(*   lock : Reservation(h, key) takes mutex_                               *)
(*   find : the constructor body finds or inserts the entry                *)
(*   next : j_sequence_.GetNext()                                          *)
(*   set  : r.Set(new FeatureAndJ(feature, j)); j_to_feature_synced_=false *)
(*   ret  : ~Reservation releases mutex_; the call returns                 *)

InitConc ==
  /\ fm = NewMap(MapKeys)
  /\ fmEver = {}
  /\ fmGone = {}
  /\ InitThreads
  /\ InitWorld
  /\ IdleStats
  /\ IdleScript

\* The keys the threads call FeatureToJ with.
ThreadKeys == 1..ConcKeys

\* A Reservation that takes no lock.
MutexIgnored == TRUE

\* lock_guard<mutex>: the constructor returns only when no one holds mutex_.
MutexFree == mu = 0

ConcCall(t, k) ==
  /\ pc[t] = "idle"
  /\ ncalls < MaxCalls
  /\ ncalls' = ncalls + 1
  /\ pc' = [pc EXCEPT ![t] = "lock"]
  /\ tkey' = [tkey EXCEPT ![t] = k]
  /\ UNCHANGED <<mu, tj, rets>>
  /\ UNCHANGED mapVars
  /\ UNCHANGED worldVars
  /\ UNCHANGED restVars

ConcLock(t) ==
  /\ pc[t] = "lock"
  /\ MutexFree
  /\ mu' = t
  /\ pc' = [pc EXCEPT ![t] = "find"]
  /\ UNCHANGED <<tkey, tj, rets, ncalls>>
  /\ UNCHANGED mapVars
  /\ UNCHANGED worldVars
  /\ UNCHANGED restVars

ConcFind(t) ==
  /\ pc[t] = "find"
  /\ fm' = Reserve(fm, tkey[t])
  /\ IF Empty(fm', tkey[t])
     THEN pc' = [pc EXCEPT ![t] = "next"] /\ UNCHANGED tj
     ELSE /\ pc' = [pc EXCEPT ![t] = "ret"]
          /\ tj' = [tj EXCEPT ![t] = fm.tab[tkey[t]].j]
  /\ UNCHANGED <<mu, tkey, rets, ncalls, fmEver, fmGone>>
  /\ UNCHANGED worldVars
  /\ UNCHANGED restVars

ConcGetNext(t) ==
  /\ pc[t] = "next"
  /\ tj' = [tj EXCEPT ![t] = fm.seq]
  /\ fm' = [fm EXCEPT !.seq = fm.seq + 1]
  /\ pc' = [pc EXCEPT ![t] = "set"]
  /\ UNCHANGED <<mu, tkey, rets, ncalls, fmEver, fmGone>>
  /\ UNCHANGED worldVars
  /\ UNCHANGED restVars

ConcSet(t) ==
  /\ pc[t] = "set"
  /\ fm' = [fm EXCEPT !.tab[tkey[t]] = RecEntry(tj[t]), !.synced = FALSE]
  /\ pc' = [pc EXCEPT ![t] = "ret"]
  /\ UNCHANGED <<mu, tkey, tj, rets, ncalls, fmEver, fmGone>>
  /\ UNCHANGED worldVars
  /\ UNCHANGED restVars

ConcReturn(t) ==
  /\ pc[t] = "ret"
  /\ mu' = 0
  /\ rets' = [rets EXCEPT ![tkey[t]] = @ \cup {tj[t]}]
  /\ pc' = [pc EXCEPT ![t] = "idle"]
  /\ UNCHANGED <<tkey, tj, ncalls>>
  /\ UNCHANGED mapVars
  /\ UNCHANGED worldVars
  /\ UNCHANGED restVars

NextConc ==
  \/ \E t \in Threads, k \in ThreadKeys : ConcCall(t, k)
  \/ \E t \in Threads : ConcLock(t)
  \/ \E t \in Threads : ConcFind(t)
  \/ \E t \in Threads : ConcGetNext(t)
  \/ \E t \in Threads : ConcSet(t)
  \/ \E t \in Threads : ConcReturn(t)

SpecConc == InitConc /\ [][NextConc]_vars

\* C5: under any interleaving of FeatureToJ calls on one map, calls with the
\* same key return the same J, calls with different keys return different
\* J's, and once every call has returned the J's handed out are exactly
\* 0 .. Size() - 1.
C5_ConcurrentIntern ==
  /\ \A k \in MapKeys : Cardinality(rets[k]) <= 1
  /\ \A k1, k2 \in MapKeys : k1 # k2 => rets[k1] \cap rets[k2] = {}
  /\ (\A t \in Threads : pc[t] = "idle") =>
       UNION {rets[k] : k \in MapKeys} = Range(0, Size(fm))

\* One thread waits for the mutex with a key that another thread is in the
\* middle of inserting.
C5_Witness ==
  \E t1, t2 \in Threads :
    /\ t1 # t2
    /\ pc[t1] = "lock" /\ pc[t2] = "set"
    /\ tkey[t1] = tkey[t2]

---------------------------------------------------------------------------
(* The World (world.cc) and the commands of BatchTraining::RunCommand.     *)

\* The components that the operators below change together.
TheWorld ==
  [product_map |-> product_map, j_size |-> j_size, model |-> model,
   training_majorizer |-> training_majorizer,
   holdout_majorizer |-> holdout_majorizer, sgd |-> sgd,
   training |-> training, holdout |-> holdout, dependees |-> dependees,
   settings |-> settings, pass |-> pass, aborted |-> FALSE]

Becomes(W) ==
  /\ product_map' = W.product_map
  /\ j_size' = W.j_size
  /\ model' = W.model
  /\ training_majorizer' = W.training_majorizer
  /\ holdout_majorizer' = W.holdout_majorizer
  /\ sgd' = W.sgd
  /\ training' = W.training
  /\ holdout' = W.holdout
  /\ dependees' = W.dependees
  /\ settings' = W.settings
  /\ pass' = W.pass
  /\ aborted' = W.aborted

\* A CHECK fires, a LOG(FATAL) is written or a null pointer is followed.
Abort(W) == [W EXCEPT !.aborted = TRUE]

\* World::SetJSize
SetJSize(W, size) ==
  [W EXCEPT !.j_size = size,
            !.model = ModelSetSize(@, size),
            !.training_majorizer = MajorizerSetSize(@, size),
            !.holdout_majorizer = MajorizerSetSize(@, size),
            !.sgd.weights_length = size]

\* World::AddFeatures; visited are the records that the loop of
\* SyncJToFeatureMap reaches.
AddFeatures(W, from_j, to_j, visited) ==
  IF Size(W.product_map) # to_j THEN Abort(W)
  ELSE
    LET pm == SyncVisited(W.product_map, visited)
        dep == SetRowCount(W.dependees, to_j)
    IN IF ~pm.ok \/ to_j < RowCount(W.dependees)
       THEN Abort([W EXCEPT !.product_map = pm])
       ELSE SetJSize([W EXCEPT !.product_map = pm,
                               !.dependees = dep,
                               !.training = RecalcStats(@, dep, to_j),
                               !.holdout = RecalcStats(@, dep, to_j)],
                     to_j)

AddFeaturesAll(W, from_j, to_j) ==
  {AddFeatures(W, from_j, to_j, visited) : visited \in VisitSets(W.product_map)}

\* Data::RemoveAndRenumberDependees
RemoveAndRenumberDependees(dep, r) ==
  IF Len(r.j2n) = 0 THEN dep
  ELSE CsrRemoveAndRenumberRows(CsrRemoveAndRenumberJs(dep, r), r)

\* World::RemoveAndRenumber; visited are the records that the loop of
\* FeatureMapBase::RemoveAndRenumberJs reaches.
RemoveAndRenumber(W, r, visited) ==
  IF IsNoOp(r) THEN W
  ELSE
    LET pm == MapRemoveVisited(W.product_map, r, visited)
        moved ==
          [W EXCEPT !.j_size = r.next,
                    !.training = ShardSetRemoveAndRenumberJs(@, r),
                    !.holdout = ShardSetRemoveAndRenumberJs(@, r),
                    !.dependees = RemoveAndRenumberDependees(@, r),
                    !.training_majorizer = MajorizerRemoveAndRenumberJs(@, r),
                    !.holdout_majorizer = MajorizerRemoveAndRenumberJs(@, r),
                    !.model = ModelRemoveAndRenumberJs(@, r),
                    !.product_map = pm]
    IN IF pm.ok THEN moved ELSE Abort(moved)

RemoveAndRenumberAll(W, r) ==
  {RemoveAndRenumber(W, r, visited) : visited \in VisitSets(W.product_map)}

---------------------------------------------------------------------------
(* read_data (read_data.cc, data_reader.cc) with the feature specs         *)
(*   product {}  and  product { prefix: "" }                               *)
(* and one reading thread: every row is the bias and its atomic features.  *)
(* The data set that is read has NumAtoms rows of training data, row i     *)
(* holding the first NumAtoms - i + 1 atoms, and one row of holdout data.  *)

TrainingSet ==
  [i \in 1..NumAtoms |->
     [atoms |-> 0..(NumAtoms - i), y |-> IF i % 2 = 1 THEN 1 ELSE 0 - 1]]

HoldoutSet == <<[atoms |-> 1..(NumAtoms - 1), y |-> 0 - 1]>>

\* FeatureSpec::AddFeatures of both specs over the sorted features of a row:
\* the JProducts handed to FeatureToJ, in order.
RowProducts(atoms) ==
  LET sorted == SetToSortedSeq(atoms)
  IN <<{}>> \o [i \in 1..Len(sorted) |-> {sorted[i]}]

\* The FeatureToJ calls of one row, one after another: each call returns
\* before the next one is made.
RECURSIVE InternAll(_, _, _)
InternAll(m, products, js) ==
  IF Len(products) = 0 THEN [map |-> m, js |-> js]
  ELSE CHOOSE out \in {InternAll(r.map, Tail(products), Append(js, r.j)) :
                        r \in {FeatureToJ(m, Head(products))}} : TRUE

\* DataReader::Run over the rows of one set: [map, rows, id].
RECURSIVE ReadRows(_, _, _, _)
ReadRows(m, input, rows, id) ==
  IF Len(input) = 0 THEN [map |-> m, rows |-> rows, id |-> id]
  ELSE LET r == InternAll(m, RowProducts(Head(input).atoms), <<>>)
       IN ReadRows(r.map, Tail(input),
                   Append(rows, [js |-> r.js, y |-> Head(input).y, id |-> id]),
                   id + 1)

\* ReadData::DataReader with MultiDataReader::Run: the worlds it can leave.
\* The CHECK_EQ(0, feature_map_->Size()) of the DataReader fires on a second
\* read: the feature map holds the atoms from the first one on.
ReadDataInto(W) ==
  IF Size(W.product_map) # 0 \/ W.settings.has_data THEN {Abort(W)}
  ELSE
    LET t == ReadRows(W.product_map, TrainingSet, <<>>, 0)
        h == ReadRows(t.map, HoldoutSet, <<>>, t.id)
        read == [W EXCEPT !.product_map = h.map,
                          !.training.rows = t.rows,
                          !.holdout.rows = h.rows]
        Finish(added) ==
          IF added.aborted THEN added
          ELSE [added EXCEPT
                  !.model = InitPerShards(@,
                              StatsRowCount(added.training.stats),
                              StatsRowCount(added.holdout.stats)),
                  !.settings.has_data = TRUE]
    IN {Finish(added) : added \in AddFeaturesAll(read, 0, Size(h.map))}

Running == ~aborted /\ ncommands < MaxCommands

\* The command name with its config message has been run.
RanWith(name, config) ==
  /\ op' = name
  /\ command' = config
  /\ ncommands' = ncommands + 1

Ran(name) == RanWith(name, NoConfig)

ReadData ==
  /\ Running
  /\ \E W \in ReadDataInto(TheWorld) : Becomes(W)
  /\ Ran("read_data")
  /\ UNCHANGED <<renumbering, scores>>
  /\ UNCHANGED mapVars
  /\ UNCHANGED thrVars
  /\ UNCHANGED restVars

\* set { allow_undo: b  sgd_learning_rate_schedule { start_learning_rate } }
Set(b) ==
  /\ Running
  /\ settings' = [settings EXCEPT !.allow_undo = b]
  /\ sgd' = [sgd EXCEPT !.has_start_learning_rate = TRUE]
  /\ Ran("set")
  /\ UNCHANGED <<product_map, j_size, model, training_majorizer,
                 holdout_majorizer, training, holdout, dependees, aborted,
                 renumbering, scores, pass>>
  /\ UNCHANGED mapVars
  /\ UNCHANGED thrVars
  /\ UNCHANGED restVars

---------------------------------------------------------------------------
(* fit_model_weights { iterations: 1 }                                     *)

\* SyncModelWithWeights of the world's optimizer: [world, ok].
SyncWorld(W) ==
  LET s == SyncModelWithWeights(W.model, W.training_majorizer,
                                W.holdout_majorizer, W.dependees, W.training,
                                W.holdout, W.settings.l1)
  IN [world |-> [W EXCEPT !.model = s.model,
                          !.training_majorizer = s.tm,
                          !.holdout_majorizer = s.hm],
      ok |-> s.ok]

\* The world as UpdateMinimum finds it in MakeOnePass.
BeforeUpdate(W) == SyncWorld(W).world

\* GradBoost::MakeOnePass, given how UpdateMinimum comes out.
MakeOnePass(W, delta, restart) ==
  IF ~W.settings.has_data THEN Abort(W)
  ELSE
    LET s1 == SyncWorld(W)
        W1 == s1.world
        W2 == [W1 EXCEPT !.model = UpdateMinimum(@, W1.training_majorizer,
                                                 W.settings.l1,
                                                 W.settings.allow_undo,
                                                 delta, restart)]
        s2 == SyncWorld(W2)
        line == [kind |-> IF Undoes(W1.model, W1.training_majorizer,
                                    W.settings.l1, W.settings.allow_undo)
                          THEN "undo"
                          ELSE IF restart THEN "restart" ELSE "update",
                 prev_at_test |-> W1.model.prev_total_loss,
                 follows_undo |-> W.pass.kind = "undo",
                 n |-> W.pass.n + 1]
    IN IF ~s1.ok \/ Len(W.training_majorizer.of_j) # GetSize(W.model)
       THEN Abort(W1)
       ELSE IF ~s2.ok THEN Abort(W2)
       ELSE [s2.world EXCEPT !.pass = line]

Moved(w, delta) == [j \in 1..Len(w) |-> w[j] + delta[j]]

FitModelWeights ==
  /\ Running
  /\ \E delta \in Steps(model.w), restart \in BOOLEAN :
       /\ InRange(Moved(model.w, delta))
       /\ restart => delta # Zeros(Len(model.w))
       /\ Becomes(MakeOnePass(TheWorld, delta, restart))
  /\ Ran("fit_model_weights")
  /\ UNCHANGED <<renumbering, scores>>
  /\ UNCHANGED mapVars
  /\ UNCHANGED thrVars
  /\ UNCHANGED restVars

---------------------------------------------------------------------------
(* initialize_bias                                                         *)

\* BatchTraining::InitializeBias
InitializeBiasIn(W) ==
  LET has == HasFeature(W.product_map, {})
      bias_j == FeatureToJConst(has.map, {}).j
      W1 == [W EXCEPT !.product_map = has.map]
  IN IF ~has.has \/ bias_j = kInvalidJ THEN Abort(W1)
     ELSE [W1 EXCEPT !.model.w[bias_j + 1] = LogOdds(W.training.stats, bias_j)]

InitializeBias ==
  /\ Running
  /\ Becomes(InitializeBiasIn(TheWorld))
  /\ Ran("initialize_bias")
  /\ UNCHANGED <<renumbering, scores>>
  /\ UNCHANGED mapVars
  /\ UNCHANGED thrVars
  /\ UNCHANGED restVars

---------------------------------------------------------------------------
(* run_sgd { iterations: 1  only_new_features: b }  (sgd.h)                *)

IsFeatureNew(m, j) == m.creation_time[j + 1] = m.current_creation_time

\* Sgd::MakeOnePass: weights_ is loaded from w, moved by delta and stored
\* back into w.
SgdMakeOnePass(W, delta) ==
  IF GetSize(W.model) # W.sgd.weights_length THEN Abort(W)
  ELSE [W EXCEPT !.model.w = Moved(@, delta),
                 !.model.synced_with_weights = FALSE]

\* BatchTraining::RunSgdIteration
RunSgdIteration(W, only_new_features, delta) ==
  IF ~W.sgd.has_start_learning_rate THEN W
  ELSE IF ~W.settings.has_data THEN Abort(W)
  ELSE IF StatsRowCount(W.training.stats) = 0 THEN W
  ELSE SgdMakeOnePass(W, delta)

RunSgd(only_new_features) ==
  /\ Running
  /\ \E delta \in Steps(model.w) :
       /\ InRange(Moved(model.w, delta))
       /\ \A j \in 1..Len(delta) :
            (only_new_features /\ ~IsFeatureNew(model, j - 1)) => delta[j] = 0
       /\ Becomes(RunSgdIteration(TheWorld, only_new_features, delta))
  /\ Ran("run_sgd")
  /\ UNCHANGED <<renumbering, scores>>
  /\ UNCHANGED mapVars
  /\ UNCHANGED thrVars
  /\ UNCHANGED restVars

---------------------------------------------------------------------------
(* score_rows { write_scores } (score_rows.cc)                             *)

\* ScoreRows::GetScoreProto: [world, wx]; wx are the written scores, those
\* of the training rows first.
GetScoreProto(W) ==
  IF ~W.model.synced_with_weights /\ ~W.settings.has_data
  THEN [world |-> Abort(W), wx |-> <<>>]
  ELSE
    LET s == IF W.model.synced_with_weights THEN [world |-> W, ok |-> TRUE]
             ELSE SyncWorld(W)
        W1 == s.world
    IN IF ~s.ok THEN [world |-> Abort(W1), wx |-> <<>>]
       ELSE [world |-> W1, wx |-> W1.model.training \o W1.model.holdout]

ScoreRows ==
  /\ Running
  /\ Becomes(GetScoreProto(TheWorld).world)
  /\ scores' = GetScoreProto(TheWorld).wx
  /\ Ran("score_rows")
  /\ UNCHANGED renumbering
  /\ UNCHANGED mapVars
  /\ UNCHANGED thrVars
  /\ UNCHANGED restVars

---------------------------------------------------------------------------
(* FeatureScoring::ScoreFeatures (feature_scoring.cc) for the two          *)
(* orderings that are computed from the weights.                           *)

Abs(x) == IF x < 0 THEN 0 - x ELSE x

ScoreFeatures(W, feature_ordering) ==
  [j \in 1..GetSize(W.model) |->
     IF feature_ordering = "WEIGHT_ABSOLUTE_VALUE" THEN Abs(W.model.w[j])
     ELSE Abs(W.model.w[j]) * XjBoolCountOfJ(W.training.stats, j - 1)]

FeatureOrderings ==
  {"WEIGHT_ABSOLUTE_VALUE", "WEIGHT_ABSOLUTE_VALUE_TIMES_ROW_COUNT"}

---------------------------------------------------------------------------
(* PrioritySumIterator (range.h) over v, a sequence of <<score, j>> sorted *)
(* from largest to smallest; pq holds <<sum, row, column>> with row and    *)
(* column counted from 0.                                                  *)

TripleLess(p, q) ==
  \/ p[1] < q[1]
  \/ p[1] = q[1] /\ p[2] < q[2]
  \/ p[1] = q[1] /\ p[2] = q[2] /\ p[3] < q[3]

\* A top() that gives the smallest element.
Bottom(pq) == CHOOSE e \in pq : \A f \in pq : ~TripleLess(f, e)

\* priority_queue::top(): the largest element.
Top(pq) == CHOOSE e \in pq : \A f \in pq : ~TripleLess(e, f)

\* PrioritySumIterator::InsertNext
InsertNext(v, pq, row, column) ==
  IF column + 1 >= Len(v) THEN pq
  ELSE pq \cup {<<v[row + 1][1] + v[column + 2][1], row, column + 1>>}

RECURSIVE InsertAll(_, _, _)
InsertAll(v, pq, j) ==
  IF j >= Len(v) THEN pq ELSE InsertAll(v, InsertNext(v, pq, j, j), j + 1)

\* A PrioritySumIterator seeded with the pairs <<j, j>> themselves.
NewPsiFromDiagonal(v) ==
  {<<v[j][1] + v[j][1], j - 1, j - 1>> : j \in 1..Len(v)}

\* PrioritySumIterator(v)
NewPsi(v) == InsertAll(v, {}, 0)

\* std::sort(best_js.rbegin(), best_js.rend()): largest <<score, j>> first.
RECURSIVE SortedDown(_)
SortedDown(S) ==
  IF S = {} THEN <<>>
  ELSE LET m == CHOOSE x \in S : \A y \in S : ~PairLess(x, y)
       IN <<m>> \o SortedDown(S \ {m})

---------------------------------------------------------------------------
(* add_new_product_features (feature_exploration.cc) with a config of      *)
(*   feature_scoring { feature_ordering }, maximum_features_added and,     *)
(*   when max_product_size is not 0 here, max_product_size.                *)

\* JProduct::And: the merged, sorted and uniqued Js.
And(f1, f2) == f1 \cup f2

\* A size test that lets every product through.
NeverExceeds(new_f, config) == FALSE

\* config.has_max_product_size() &&
\* new_f.GetJs().size() > config.max_product_size()
ExceedsMaxProductSize(new_f, config) ==
  config.max_product_size # 0 /\ Cardinality(new_f) > config.max_product_size

\* The while loop of AddNewProductFeatures on
\* st = [map, coo, pq, new_feature_count].
RECURSIVE ExploreLoop(_, _, _)
ExploreLoop(st, v, config) ==
  IF st.new_feature_count >= config.maximum_features_added \/ st.pq = {}
  THEN st
  ELSE
    LET e == Top(st.pq)
        pq == InsertNext(v, st.pq \ {e}, e[2], e[3])
        a == v[e[2] + 1][2]
        b == v[e[3] + 1][2]
        first == IF a > b THEN b ELSE a
        second == IF a > b THEN a ELSE b
        new_f == And(JToFeature(st.map, first), JToFeature(st.map, second))
        has == HasFeature(st.map, new_f)
        added == FeatureToJ(has.map, new_f)
    IN IF has.has
       THEN ExploreLoop([st EXCEPT !.pq = pq, !.map = has.map], v, config)
       ELSE IF ExceedsMaxProductSize(new_f, config)
       THEN ExploreLoop([st EXCEPT !.pq = pq, !.map = has.map], v, config)
       ELSE ExploreLoop(
              [map |-> added.map,
               coo |-> SetTrue(SetTrue(st.coo, first, added.j), second, added.j),
               pq |-> pq,
               new_feature_count |-> st.new_feature_count + 1],
              v, config)

\* FeatureExploration::AddNewProductFeatures: the worlds it can leave.
AddNewProductFeaturesIn(W, config) ==
  IF \/ GetSize(W.model) # Size(W.product_map)
     \/ ~W.product_map.synced
     \/ Size(W.product_map) = 0
  THEN {Abort(W)}
  ELSE
    LET first_j_added == Size(W.product_map)
        j_to_score == ScoreFeatures(W, config.feature_ordering)
        best_js == SortedDown({<<j_to_score[j + 1], j>> :
                                 j \in 0..(Len(W.product_map.jtf) - 1)})
        st == ExploreLoop([map |-> W.product_map,
                           coo |-> ToCooMatrix(W.dependees),
                           pq |-> NewPsi(best_js),
                           new_feature_count |-> 0],
                          best_js, config)
        explored == [W EXCEPT !.product_map = st.map,
                              !.dependees = FromCooMatrix(Sort(st.coo))]
    IN AddFeaturesAll(explored, first_j_added, Size(st.map))

ExplorationConfigs ==
  [feature_ordering : FeatureOrderings,
   maximum_features_added : {1, 2},
   max_product_size : {0, 2}]

AddNewProductFeatures(config) ==
  /\ Running
  /\ \E W \in AddNewProductFeaturesIn(TheWorld, config) : Becomes(W)
  /\ RanWith("add_new_product_features", config)
  /\ UNCHANGED <<renumbering, scores>>
  /\ UNCHANGED mapVars
  /\ UNCHANGED thrVars
  /\ UNCHANGED restVars

---------------------------------------------------------------------------
(* prune_features (feature_pruning.cc) with a config of feature_scoring    *)
(* { feature_ordering } and score_threshold or top_count.  The state of    *)
(* the loop of ComputePruning is                                           *)
(*   [queue |-> the J's in js_queue, removed |-> the J's with removed_js,  *)
(*    triggered_by |-> J -> the J's blocked by it].                        *)
(* num_removed_children[j] is the position of the first child of j that is *)
(* not removed, which is read here from removed_js itself.                 *)

\* The children of j that still stand, in the order of its dependees row.
Standing(dep, removed, j) ==
  SelectSeq(GetRow(dep, j), LAMBDA c : c \notin removed)

MinScore(st, j_to_score) ==
  CHOOSE x \in {j_to_score[j + 1] : j \in st.queue} :
    \A j \in st.queue : x <= j_to_score[j + 1]

\* Breaks that stop the loop with one J more than top_count in the queue.
StopsEarly(st, config, j_to_score) ==
  \/ st.queue = {}
  \/ MinScore(st, j_to_score) = kInfinity
  \/ config.has_score_threshold
       /\ MinScore(st, j_to_score) > config.score_threshold
  \/ config.has_top_count /\ Cardinality(st.queue) <= config.top_count + 1

\* Breaks that let the queue shrink to one J less than top_count.
StopsBelow(st, config, j_to_score) ==
  \/ st.queue = {}
  \/ MinScore(st, j_to_score) = kInfinity
  \/ config.has_score_threshold
       /\ MinScore(st, j_to_score) > config.score_threshold
  \/ config.has_top_count /\ Cardinality(st.queue) < config.top_count

\* The breaks at the head of the loop.
Stops(st, config, j_to_score) ==
  \/ st.queue = {}
  \/ MinScore(st, j_to_score) = kInfinity
  \/ config.has_score_threshold
       /\ MinScore(st, j_to_score) > config.score_threshold
  \/ config.has_top_count /\ Cardinality(st.queue) <= config.top_count

\* js_queue.top() compares scores only: any J of the lowest score can be
\* the one on top.
Tops(st, j_to_score) ==
  {j \in st.queue : j_to_score[j + 1] = MinScore(st, j_to_score)}

\* A turn of the loop that removes the J on top whatever children it has.
PopUnblocked(st, dep, j) ==
  [queue |-> (st.queue \ {j}) \cup st.triggered_by[j],
   removed |-> st.removed \cup {j},
   triggered_by |-> [st.triggered_by EXCEPT ![j] = {}]]

\* A turn of the loop that, removing j, drops the J's blocked by it.
PopForgetsBlocked(st, dep, j) ==
  LET standing == Standing(dep, st.removed, j)
      queue == st.queue \ {j}
  IN IF Len(standing) > 0
     THEN [st EXCEPT !.queue = queue,
                     !.triggered_by[Head(standing)] = @ \cup {j}]
     ELSE [queue |-> queue,
           removed |-> st.removed \cup {j},
           triggered_by |-> [st.triggered_by EXCEPT ![j] = {}]]

\* One turn of the loop with j on top.
Pop(st, dep, j) ==
  LET standing == Standing(dep, st.removed, j)
      queue == st.queue \ {j}
  IN IF Len(standing) > 0
     THEN [st EXCEPT !.queue = queue,
                     !.triggered_by[Head(standing)] = @ \cup {j}]
     ELSE [queue |-> queue \cup st.triggered_by[j],
           removed |-> st.removed \cup {j},
           triggered_by |-> [st.triggered_by EXCEPT ![j] = {}]]

\* The loop run to its break from every state of S.
RECURSIVE PruneAll(_, _, _, _)
PruneAll(S, dep, config, j_to_score) ==
  IF \A st \in S : Stops(st, config, j_to_score) THEN S
  ELSE PruneAll(UNION {IF Stops(st, config, j_to_score) THEN {st}
                       ELSE {Pop(st, dep, j) : j \in Tops(st, j_to_score)} :
                       st \in S},
                dep, config, j_to_score)

\* FeaturePruning::ComputePruning: the removed_js it can return.
ComputePruning(W, config, j_to_score) ==
  LET js == 0..(Len(W.product_map.jtf) - 1)
      start == [queue |-> js, removed |-> {},
                triggered_by |-> [j \in js |-> {}]]
  IN {st.removed : st \in PruneAll({start}, W.dependees, config, j_to_score)}

\* FeaturePruning::PruneFeatures: the [world, r] it can leave, r being the
\* JRenumbering handed to World::RemoveAndRenumber.
PruneFeaturesIn(W, config) ==
  IF ~W.product_map.synced \/ Len(W.product_map.jtf) > GetSize(W.model)
  THEN {[world |-> Abort(W), r |-> NoRenumbering]}
  ELSE
    LET j_to_score == ScoreFeatures(W, config.feature_ordering)
    IN UNION {LET r == RemoveJs(GetSize(W.model), removed_js)
              IN {[world |-> V, r |-> r] : V \in RemoveAndRenumberAll(W, r)} :
              removed_js \in ComputePruning(W, config, j_to_score)}

\* score_threshold: 0, or a top_count of as many features as read_data
\* leaves, one less or one more.
TopCounts == {NumAtoms, NumAtoms + 1, NumAtoms + 2}

PruningConfigs ==
  [feature_ordering : FeatureOrderings,
   has_score_threshold : {TRUE}, score_threshold : {0},
   has_top_count : {FALSE}, top_count : {0}]
  \cup
  [feature_ordering : FeatureOrderings,
   has_score_threshold : {FALSE}, score_threshold : {0},
   has_top_count : {TRUE}, top_count : TopCounts]

PruneFeatures(config) ==
  /\ Running
  /\ \E out \in PruneFeaturesIn(TheWorld, config) :
       /\ Becomes(out.world)
       /\ renumbering' = out.r
  /\ RanWith("prune_features", config)
  /\ UNCHANGED scores
  /\ UNCHANGED mapVars
  /\ UNCHANGED thrVars
  /\ UNCHANGED restVars

---------------------------------------------------------------------------
(* A run of BatchTraining::RunCommand over a command list.                 *)

Init ==
  /\ fm = NewMap(MapKeys)
  /\ fmEver = {}
  /\ fmGone = {}
  /\ InitThreads
  /\ InitWorld
  /\ IdleStats
  /\ IdleScript

Next ==
  \/ ReadData
  \/ \E b \in BOOLEAN : Set(b)
  \/ FitModelWeights
  \/ InitializeBias
  \/ \E only_new_features \in BOOLEAN : RunSgd(only_new_features)
  \/ ScoreRows
  \/ \E config \in ExplorationConfigs : AddNewProductFeatures(config)
  \/ \E config \in PruningConfigs : PruneFeatures(config)

Spec == Init /\ [][Next]_vars

---------------------------------------------------------------------------
(* Properties of a run of commands.                                        *)

\* C1: whatever features have been added, removed and renumbered, every
\* component indexed by J has exactly as many entries as there are J's: w
\* and the vectors beside it, both majorizers, the weights of Sgd, the Stats
\* of both shard sets, the rows of dependees and the product map.
C1_AllSizedToJ ==
  ~aborted =>
    /\ GetSize(model) = j_size
    /\ Len(model.delta_w) = j_size
    /\ Len(model.precision) = j_size
    /\ Len(model.loss_derivative) = j_size
    /\ Len(model.creation_time) = j_size
    /\ Len(training_majorizer.of_j) = j_size
    /\ Len(holdout_majorizer.of_j) = j_size
    /\ sgd.weights_length = j_size
    /\ StatsSize(training.stats) = j_size
    /\ StatsSize(holdout.stats) = j_size
    /\ RowCount(dependees) = j_size
    /\ Size(product_map) = j_size

\* C2: a command that leaves w other than it found it leaves
\* synced_with_weights false, unless a SyncModelWithWeights has completed
\* after the write, as it has at the end of every fit_model_weights.
C2_WriteClearsSynced ==
  [][(model'.w # model.w /\ ~aborted' /\ op' # "fit_model_weights")
       => ~model'.synced_with_weights]_vars

\* The w.x of every row under the weights and dependees of this state, the
\* training rows first.
CurrentScores ==
  ProcessShardSet(training, dependees, model.w)
    \o ProcessShardSet(holdout, dependees, model.w)

\* C3: the scores that score_rows has written are, row by row, the dot
\* product of the current w with the row's extended feature set.
C3_ScoresAreCurrent ==
  (op = "score_rows" /\ ~aborted) => scores = CurrentScores

\* The J's that are in use in a map.
LiveJs(m) == {m.tab[k].j : k \in ValidKeys(m)}

\* The key that holds J j.
KeyOfJ(m, j) == CHOOSE k \in ValidKeys(m) : m.tab[k].j = j

\* C6: after prune_features has removed and renumbered with R, the J's in
\* use are exactly 0..R.next_j - 1, and of any two surviving features the one
\* with the lower J before has the lower J after.
C6_CompactInOrder ==
  [][(op' = "prune_features" /\ ~aborted') =>
       /\ LiveJs(product_map') = 0..(renumbering'.next - 1)
       /\ \A k1, k2 \in ValidKeys(product_map') :
            product_map.tab[k1].j < product_map.tab[k2].j
              => product_map'.tab[k1].j < product_map'.tab[k2].j]_vars

\* A renumbering has been applied under which a surviving feature moved.
ASurvivorMoved ==
  \E i \in 1..Len(renumbering.j2n) :
    renumbering.j2n[i] # kInvalidJ /\ renumbering.j2n[i] # i - 1

C6_Witness ==
  /\ op = "prune_features"
  /\ ~aborted
  /\ ASurvivorMoved
  /\ Cardinality(LiveJs(product_map)) >= 2

\* C7: for every feature that survives a prune_features, with J j before and
\* J n after, w[n], the Stats counts at n and JToFeature(n) are what they
\* were at j, every data row holds n exactly if it held j, and dependees has
\* the edge from the new J of p to the new J of c exactly if it had the edge
\* from p to c, for surviving p and c.
C7_ConsistentRelabeling ==
  [][(op' = "prune_features" /\ ~aborted') =>
       LET r == renumbering'
           Old == {j \in 0..(Len(r.j2n) - 1) : r.j2n[j + 1] # kInvalidJ}
           New(j) == r.j2n[j + 1]
           Same(before, after, j) == after[New(j) + 1] = before[j + 1]
           SameRows(before, after, j) ==
             \A i \in 1..Len(before) :
               (New(j) \in SeqToSet(after[i].js))
                 <=> (j \in SeqToSet(before[i].js))
       IN /\ RowCount(dependees') = r.next
          /\ Len(training'.rows) = Len(training.rows)
          /\ Len(holdout'.rows) = Len(holdout.rows)
          /\ \A j \in Old :
               /\ Same(model.w, model'.w, j)
               /\ Same(training.stats.positive, training'.stats.positive, j)
               /\ Same(training.stats.negative, training'.stats.negative, j)
               /\ Same(holdout.stats.positive, holdout'.stats.positive, j)
               /\ Same(holdout.stats.negative, holdout'.stats.negative, j)
               /\ JToFeature(product_map', New(j)) = JToFeature(product_map, j)
               /\ SameRows(training.rows, training'.rows, j)
               /\ SameRows(holdout.rows, holdout'.rows, j)
          /\ \A p, c \in Old :
               (New(c) \in SeqToSet(GetRow(dependees', New(p))))
                 <=> (c \in SeqToSet(GetRow(dependees, p)))]_vars

\* A prune_features moved a feature that has a weight, with a product and
\* its edges among the survivors.
C7_Witness ==
  /\ op = "prune_features"
  /\ ~aborted
  /\ NonZerosCount(dependees) > 0
  /\ \E i \in 1..Len(renumbering.j2n) :
       /\ renumbering.j2n[i] # kInvalidJ
       /\ renumbering.j2n[i] # i - 1
       /\ model.w[renumbering.j2n[i] + 1] # 0

\* C8: every edge of dependees goes from a parent to a child of a higher J
\* whose JProduct holds every atom of the parent's JProduct.
C8_DependeesDag ==
  ~aborted =>
    \A p \in 0..(RowCount(dependees) - 1) :
      \A c \in SeqToSet(GetRow(dependees, p)) :
        /\ p < c
        /\ KeyOfJ(product_map, p) \subseteq KeyOfJ(product_map, c)

\* After features were added and then some removed, an edge stands whose
\* child is a product of two atoms.
C8_Witness ==
  /\ op = "prune_features"
  /\ ~aborted
  /\ renumbering.next < Len(renumbering.j2n)
  /\ \E p \in 0..(RowCount(dependees) - 1) :
       \E c \in SeqToSet(GetRow(dependees, p)) :
         Cardinality(KeyOfJ(product_map, c)) = 2

\* J j is one of the J's that the renumbering r removes.
Removes(r, j) == j < Len(r.j2n) /\ r.j2n[j + 1] = kInvalidJ

\* C15: the set of J's that a prune_features removes is closed under
\* dependees children: with a J it removes every child the J has in the
\* dependees of the call.
C15_RemovedClosed ==
  [][(op' = "prune_features" /\ ~aborted') =>
       \A j \in 0..(RowCount(dependees) - 1) :
         Removes(renumbering', j) =>
           \A c \in SeqToSet(GetRow(dependees, j)) :
             Removes(renumbering', c)]_vars

\* A prune_features has removed a product together with its factors.
C15_Witness ==
  /\ op = "prune_features"
  /\ ~aborted
  /\ Len(renumbering.j2n) > NumAtoms + 1
  /\ \A j \in 0..NumAtoms : Removes(renumbering, j)
  /\ Removes(renumbering, NumAtoms + 1)

\* A prune_features with top_count, and nothing else, has run on a model of
\* at least top_count features.
PrunedToTopCount ==
  /\ op = "prune_features"
  /\ ~aborted
  /\ command.has_top_count
  /\ ~command.has_score_threshold
  /\ Len(renumbering.j2n) >= command.top_count

\* C16: a prune_features with top_count = k as its only stopping option, on
\* a model of at least k features, all of finite score, leaves exactly k
\* features.
C16_LeavesTopCount ==
  PrunedToTopCount => Cardinality(LiveJs(product_map)) = command.top_count

\* C16 as the code has it: such a prune_features leaves at least k features,
\* and exactly k when no J has a dependees child at the call.
C16_LeavesAtLeastTopCount ==
  [][(PrunedToTopCount') =>
       /\ Cardinality(LiveJs(product_map')) >= command'.top_count
       /\ NonZerosCount(dependees) = 0 =>
            Cardinality(LiveJs(product_map')) = command'.top_count]_vars

\* A prune_features with top_count has removed a feature and left more than
\* top_count of them, a J with a child among them.
C16_Witness ==
  /\ PrunedToTopCount
  /\ renumbering.next < Len(renumbering.j2n)
  /\ Cardinality(LiveJs(product_map)) > command.top_count
  /\ NonZerosCount(dependees) > 0

\* C17: a prune_features with score_threshold = t removes no J whose score,
\* as ScoreFeatures computes it at the call, is t or more.
C17_KeepsAtThreshold ==
  [][(op' = "prune_features" /\ ~aborted' /\ command'.has_score_threshold) =>
       \A j \in 0..(GetSize(model) - 1) :
         Removes(renumbering', j) =>
           ScoreFeatures(TheWorld, command'.feature_ordering)[j + 1]
             < command'.score_threshold]_vars

\* C18: a prune_features whose top_count is the number of features removes
\* no J and leaves the J numbering, the model with its weights, the state
\* of both optimizers, the stats and rows of the data, the dependees and the
\* product map as they were.
C18_TopCountOfAllIsNoOp ==
  [][(/\ op' = "prune_features"
      /\ ~aborted'
      /\ command'.has_top_count
      /\ ~command'.has_score_threshold
      /\ command'.top_count = Cardinality(LiveJs(product_map))) =>
       /\ IsNoOp(renumbering')
       /\ renumbering'.next = Cardinality(LiveJs(product_map))
       /\ UNCHANGED <<product_map, j_size, model, training_majorizer,
                      holdout_majorizer, sgd, training, holdout,
                      dependees>>]_vars

\* A prune_features with top_count at the number of features has run on
\* a model with a product feature and a weight away from 0.
C18_Witness ==
  /\ PrunedToTopCount
  /\ command.top_count = Cardinality(LiveJs(product_map))
  /\ Len(renumbering.j2n) = command.top_count
  /\ NonZerosCount(dependees) > 0
  /\ \E j \in 1..Len(model.w) : model.w[j] # 0

\* The parents of c: the J's whose dependees row holds c.
Parents(dep, c) ==
  {p \in 0..(RowCount(dep) - 1) : c \in SeqToSet(GetRow(dep, p))}

\* The extended rows of both shard sets, each as a set of J's.
ExtendedRows ==
  {SeqToSet(SparseBool(dependees, training.rows[i].js)) :
     i \in 1..Len(training.rows)}
  \cup {SeqToSet(SparseBool(dependees, holdout.rows[i].js)) :
          i \in 1..Len(holdout.rows)}

\* C9: the extended row of every data row holds every product J all of
\* whose parents it holds, products of products among them.
C9_ExtendedRowsClosed ==
  ~aborted =>
    \A ext \in ExtendedRows :
      \A c \in 0..(RowCount(dependees) - 1) :
        (Parents(dependees, c) # {} /\ Parents(dependees, c) \subseteq ext)
          => c \in ext

\* An extended row holds a product one of whose parents is a product.
C9_Witness ==
  /\ ~aborted
  /\ \E ext \in ExtendedRows :
       \E c \in ext :
         \E p \in Parents(dependees, c) : Parents(dependees, p) # {}

---------------------------------------------------------------------------
(* ShardSet::RecalcStats (data.h) of a shard set whose files gave several  *)
(* shards, thread by thread: the ParFor puts one task per shard on the     *)
(* queue of a FixedSizeThreadPool of kThreadCount threads, every task      *)
(* borrows a Stats from the pool, counts the rows of its shard into it and *)
(* gives it back; the caller then sums the pool into stats_.  After that   *)
(* the shard set is renumbered as prune_features does it.                  *)

NumShards == 2

\* J 0 is the bias, J's 1..3 are atoms and J 4 is the product of J 1 and J 2.
StatsDependees == <<<<>>, <<4>>, <<4>>, <<>>, <<>>>>

ShardChoices ==
  {<<[js |-> <<0, 1, 2, 3>>, y |-> 1]>>,
   <<[js |-> <<0, 1, 2>>, y |-> 0 - 1], [js |-> <<0, 3>>, y |-> 1]>>}

\* FixedSizeObjectPool(maximum_size, initial_num_created, factory)
NewPool(maximum_size, initial_num_created, made) ==
  [contents |-> [i \in 1..initial_num_created |-> made],
   num_grabbed |-> 0, max_size |-> maximum_size]

\* A Get that calls the factory whatever contents_ holds.
PoolGetMakes(pl, made) ==
  [pool |-> [pl EXCEPT !.num_grabbed = @ + 1], result |-> made]

\* FixedSizeObjectPool::Get once num_grabbed_ < max_size_: [pool, result].
PoolGet(pl, made) ==
  IF Len(pl.contents) > 0
  THEN [pool |-> [pl EXCEPT !.num_grabbed = @ + 1,
                            !.contents = SubSeq(@, 1, Len(@) - 1)],
        result |-> pl.contents[Len(pl.contents)]]
  ELSE [pool |-> [pl EXCEPT !.num_grabbed = @ + 1], result |-> made]

\* A Release that leaves num_grabbed_ as it was.
PoolReleaseGrabbed(pl, object) == [pl EXCEPT !.contents = Append(@, object)]

\* FixedSizeObjectPool::Release
PoolRelease(pl, object) ==
  [pl EXCEPT !.contents = Append(@, object), !.num_grabbed = @ - 1]

\* FixedSizeObjectPool::Retire
PoolRetire(pl) == [pl EXCEPT !.num_grabbed = @ - 1]

\* The size RecalcStats is called with: World::AddFeatures hands it to_j.
NewSize == RowCount(shard_dependees)

InitStats ==
  /\ fm = NewMap(MapKeys)
  /\ fmEver = {}
  /\ fmGone = {}
  /\ InitThreads
  /\ InitWorld
  /\ shards \in [1..NumShards -> ShardChoices]
  /\ stats_ = StatsReset(0)
  /\ shard_dependees = StatsDependees
  /\ pool = NewPool(kThreadCount, kThreadCount,
                    StatsReset(RowCount(StatsDependees)))
  /\ tasks = <<>>
  /\ worker = [t \in 1..kThreadCount |-> [pc |-> "wait"]]
  /\ main = [pc |-> "execute", i |-> 0]
  /\ applied = NoRenumbering
  /\ IdleScript

Others == <<fm, fmEver, fmGone, mu, pc, tkey, tj, rets, ncalls,
            product_map, j_size, model, training_majorizer,
            holdout_majorizer, sgd, training, holdout, dependees, settings,
            aborted, op, command, renumbering, scores, ncommands, pass,
            scriptVars>>

\* ParFor: pool.Execute of the task of the next shard.
Execute ==
  /\ main.pc = "execute"
  /\ tasks' = Append(tasks, main.i + 1)
  /\ main' = [pc |-> IF main.i + 1 = Len(shards) THEN "join" ELSE "execute",
              i |-> main.i + 1]
  /\ UNCHANGED <<shards, stats_, shard_dependees, pool, worker, applied>>
  /\ UNCHANGED Others

\* tasks_.Wait(&task) of a pool thread returns a task.
WorkerWait(t) ==
  /\ worker[t].pc = "wait"
  /\ Len(tasks) > 0
  /\ worker' = [worker EXCEPT ![t] = [pc |-> "get", shard |-> Head(tasks)]]
  /\ tasks' = Tail(tasks)
  /\ UNCHANGED <<shards, stats_, shard_dependees, pool, main, applied>>
  /\ UNCHANGED Others

\* Stats* stats = pool.Get()
WorkerGet(t) ==
  /\ worker[t].pc = "get"
  /\ pool.num_grabbed < pool.max_size
  /\ LET g == PoolGet(pool, StatsReset(NewSize))
     IN /\ pool' = g.pool
        /\ worker' = [worker EXCEPT ![t] = [pc |-> "rows",
                                            shard |-> worker[t].shard,
                                            row |-> 0, stats |-> g.result]]
  /\ UNCHANGED <<shards, stats_, shard_dependees, tasks, main, applied>>
  /\ UNCHANGED Others

\* shard.ResetExtender(i, &row_extender); stats->AddRow(row_extender)
WorkerAddRow(t) ==
  /\ worker[t].pc = "rows"
  /\ worker[t].row < Len(shards[worker[t].shard])
  /\ LET row == shards[worker[t].shard][worker[t].row + 1]
     IN worker' = [worker EXCEPT
                     ![t].stats = StatsAddRow(@, SparseBool(shard_dependees,
                                                            row.js), row.y),
                     ![t].row = @ + 1]
  /\ UNCHANGED <<shards, stats_, shard_dependees, pool, tasks, main, applied>>
  /\ UNCHANGED Others

\* pool.Release(stats)
WorkerRelease(t) ==
  /\ worker[t].pc = "rows"
  /\ worker[t].row = Len(shards[worker[t].shard])
  /\ pool' = PoolRelease(pool, worker[t].stats)
  /\ worker' = [worker EXCEPT ![t] = [pc |-> "wait"]]
  /\ UNCHANGED <<shards, stats_, shard_dependees, tasks, main, applied>>
  /\ UNCHANGED Others

\* ~FixedSizeThreadPool has joined the threads; stats_.Reset(new_size)
Join ==
  /\ main.pc = "join"
  /\ Len(tasks) = 0
  /\ \A t \in 1..kThreadCount : worker[t].pc = "wait"
  /\ stats_' = StatsReset(NewSize)
  /\ main' = [pc |-> "sum", i |-> 0]
  /\ UNCHANGED <<shards, shard_dependees, pool, tasks, worker, applied>>
  /\ UNCHANGED Others

\* One turn of the closing loop: pool.Get(), stats_.Add, pool.Retire.
SumOne ==
  /\ main.pc = "sum"
  /\ pool.num_grabbed < pool.max_size
  /\ LET g == PoolGet(pool, StatsReset(NewSize))
     IN /\ stats_' = StatsAdd(stats_, g.result)
        /\ pool' = PoolRetire(g.pool)
  /\ main' = [pc |-> IF main.i + 1 = kThreadCount THEN "done" ELSE "sum",
              i |-> main.i + 1]
  /\ UNCHANGED <<shards, shard_dependees, tasks, worker, applied>>
  /\ UNCHANGED Others

\* prune_features { top_count } on the finished shard set, every score 0:
\* Data::RemoveAndRenumberJs as World::RemoveAndRenumber calls it.
StatsRenumber(top_count) ==
  /\ main.pc = "done"
  /\ \E removed_js \in
        ComputePruning([product_map |-> [jtf |-> Zeros(NewSize)],
                        dependees |-> shard_dependees],
                       [has_score_threshold |-> FALSE, score_threshold |-> 0,
                        has_top_count |-> TRUE, top_count |-> top_count],
                       Zeros(NewSize)) :
       LET r == RemoveJs(NewSize, removed_js)
           moved == ShardSetRemoveAndRenumberJs(
                      [rows |-> <<>>, stats |-> stats_], r)
       IN /\ applied' = r
          /\ IF IsNoOp(r)
             THEN UNCHANGED <<shards, stats_, shard_dependees>>
             ELSE /\ shards' = [s \in 1..Len(shards) |->
                                  [i \in 1..Len(shards[s]) |->
                                     [shards[s][i] EXCEPT !.js =
                                        RemoveAndRenumberJsTo(r, @)]]]
                  /\ stats_' = moved.stats
                  /\ shard_dependees' =
                       RemoveAndRenumberDependees(shard_dependees, r)
  /\ main' = [pc |-> "renumbered", i |-> 0]
  /\ UNCHANGED <<pool, tasks, worker>>
  /\ UNCHANGED Others

StatsTopCounts == {RowCount(StatsDependees) - 2, RowCount(StatsDependees) - 3}

NextStats ==
  \/ Execute
  \/ \E t \in 1..kThreadCount : WorkerWait(t)
  \/ \E t \in 1..kThreadCount : WorkerGet(t)
  \/ \E t \in 1..kThreadCount : WorkerAddRow(t)
  \/ \E t \in 1..kThreadCount : WorkerRelease(t)
  \/ Join
  \/ SumOne
  \/ \E top_count \in StatsTopCounts : StatsRenumber(top_count)

SpecStats == InitStats /\ [][NextStats]_vars

\* The rows, as <<shard, row>>, whose extended set contains j.
RowsWith(j) ==
  UNION {{<<s, i>> : i \in {i \in 1..Len(shards[s]) :
                              j \in SeqToSet(SparseBool(shard_dependees,
                                                        shards[s][i].js))}} :
         s \in 1..Len(shards)}

---------------------------------------------------------------------------
(* GradBoost::MakeOnePass thread by thread (optimizers.h, parfor.h), on    *)
(* the training shards of the variable shards and no holdout data, with    *)
(* deterministic_ false.  pool is majorizer_pool_, tasks and worker are    *)
(* the FixedSizeThreadPool of the ParFor in ProcessShardSet, and main is   *)
(* the thread that called fit_model_weights:                               *)
(*   pc   : the statement it is at                                         *)
(*   i    : the shards whose task it has handed to the pool                *)
(*   sync : 1 in the opening SyncModelWithWeights of the pass, 2 in the    *)
(*          closing one                                                    *)
(*   n    : the passes it has finished                                     *)
(*   w0   : w as it was when the row pass under way began                  *)
(* The tasks of the ParFor of ParallelProcessColumns touch of_j_ alone and *)
(* are part of the step that follows the join of the row tasks.            *)

MaxIterations == 2

\* The majorizer_pool_ factory: new Majorizer(model_->GetSize()).
PooledMajorizer == MajorizerSetSize(NewMajorizer, NewSize)

\* row_offsets[i] of ProcessShardSet, shards counted from 1.
RECURSIVE RowOffset(_)
RowOffset(i) == IF i = 1 THEN 0 ELSE RowOffset(i - 1) + Len(shards[i - 1])

\* The training rows, shard after shard.
RECURSIVE RowsUpTo(_)
RowsUpTo(i) == IF i = 0 THEN <<>> ELSE RowsUpTo(i - 1) \o shards[i]

RECURSIVE SumLogLoss(_)
SumLogLoss(majorizers) ==
  IF Len(majorizers) = 0 THEN 0
  ELSE Head(majorizers).log_loss + SumLogLoss(Tail(majorizers))

\* A thread pool destructor that returns without waiting.
JoinsAtOnce == TRUE

\* ~FixedSizeThreadPool has returned: the tasks have been taken and every
\* thread has been joined.
PoolJoined ==
  /\ Len(tasks) = 0
  /\ \A t \in 1..kThreadCount : worker[t].pc = "wait"

InitPass ==
  /\ fm = NewMap(MapKeys)
  /\ fmEver = {}
  /\ fmGone = {}
  /\ InitThreads
  /\ product_map = NewMap(JProducts)
  /\ j_size = RowCount(StatsDependees)
  /\ shards \in [1..NumShards -> ShardChoices]
  /\ model = InitPerShards(ModelSetSize(NewModel, RowCount(StatsDependees)),
                           Len(RowsUpTo(NumShards)), 0)
  /\ training_majorizer = MajorizerSetSize(NewMajorizer,
                                           RowCount(StatsDependees))
  /\ holdout_majorizer = MajorizerSetSize(NewMajorizer,
                                          RowCount(StatsDependees))
  /\ sgd = [weights_length |-> RowCount(StatsDependees),
            has_start_learning_rate |-> FALSE]
  /\ training = NewShardSet
  /\ holdout = NewShardSet
  /\ dependees = StatsDependees
  /\ settings \in {[allow_undo |-> b, has_data |-> TRUE, l1 |-> 0] :
                     b \in BOOLEAN}
  /\ aborted = FALSE
  /\ op = "fit_model_weights"
  /\ command = NoConfig
  /\ renumbering = NoRenumbering
  /\ scores = <<>>
  /\ ncommands = 0
  /\ pass = NoPass
  /\ stats_ = StatsReset(0)
  /\ shard_dependees = StatsDependees
  /\ pool = NewPool(kThreadCount, 0, PooledMajorizer)
  /\ tasks = <<>>
  /\ worker = [t \in 1..kThreadCount |-> [pc |-> "wait"]]
  /\ main = [pc |-> "sync", i |-> 0, sync |-> 1, n |-> 0, w0 |-> <<>>]
  /\ applied = NoRenumbering
  /\ IdleScript

PassOthers == <<fm, fmEver, fmGone, mu, pc, tkey, tj, rets, ncalls,
                product_map, j_size, holdout_majorizer, sgd, training, holdout,
                dependees, settings, op, command, renumbering, scores,
                ncommands, pass,
                shards, stats_, shard_dependees, applied, scriptVars>>

\* Where main goes when a SyncModelWithWeights returns.
AfterSync ==
  IF main.sync = 1 THEN [main EXCEPT !.pc = "update"]
  ELSE [main EXCEPT !.pc = IF main.n + 1 < MaxIterations THEN "sync" ELSE "done",
                    !.sync = 1, !.n = @ + 1]

\* SyncModelWithWeights up to the ParFor of ProcessShardSet(training).
PassSync ==
  /\ main.pc = "sync"
  /\ ~aborted
  /\ IF pool.num_grabbed # 0
     THEN aborted' = TRUE /\ UNCHANGED main
     ELSE /\ UNCHANGED aborted
          /\ main' = IF model.synced_with_weights THEN AfterSync
                     ELSE [main EXCEPT !.pc = "execute", !.i = 0,
                                       !.w0 = model.w]
  /\ UNCHANGED <<model, training_majorizer, pool, tasks, worker>>
  /\ UNCHANGED PassOthers

\* ParFor: pool.Execute of the ProcessRows task of the next shard.
PassExecute ==
  /\ main.pc = "execute"
  /\ tasks' = Append(tasks, main.i + 1)
  /\ main' = [main EXCEPT !.pc = IF main.i + 1 = Len(shards) THEN "join"
                                 ELSE "execute",
                          !.i = @ + 1]
  /\ UNCHANGED <<model, training_majorizer, aborted, pool, worker>>
  /\ UNCHANGED PassOthers

\* tasks_.Wait(&task) of a pool thread returns a ProcessRows task.
ProcessRowsWait(t) ==
  /\ worker[t].pc = "wait"
  /\ Len(tasks) > 0
  /\ worker' = [worker EXCEPT ![t] = [pc |-> "get", shard |-> Head(tasks)]]
  /\ tasks' = Tail(tasks)
  /\ UNCHANGED <<model, training_majorizer, aborted, pool, main>>
  /\ UNCHANGED PassOthers

\* Majorizer* majorizer = pool->Get()
ProcessRowsGet(t) ==
  /\ worker[t].pc = "get"
  /\ pool.num_grabbed < pool.max_size
  /\ LET g == PoolGet(pool, PooledMajorizer)
     IN /\ pool' = g.pool
        /\ worker' = [worker EXCEPT ![t] = [pc |-> "rows",
                                            shard |-> worker[t].shard,
                                            row |-> 0, majorizer |-> g.result,
                                            read |-> <<>>]]
  /\ UNCHANGED <<model, training_majorizer, aborted, tasks, main>>
  /\ UNCHANGED PassOthers

\* ProcessOneRow of the next row of the shard: *wx = Dot(model_->w) and
\* AddLogLoss; read is the w that the Dot has read.
ProcessOneRow(t) ==
  /\ worker[t].pc = "rows"
  /\ worker[t].row < Len(shards[worker[t].shard])
  /\ LET row == shards[worker[t].shard][worker[t].row + 1]
         wx == Dot(shard_dependees, row.js, model.w)
     IN /\ model' = [model EXCEPT
                       !.training[RowOffset(worker[t].shard)
                                  + worker[t].row + 1] = wx]
        /\ worker' = [worker EXCEPT
                        ![t].majorizer.log_loss = @ + RowLoss(wx, row.y),
                        ![t].row = @ + 1,
                        ![t].read = model.w]
  /\ UNCHANGED <<training_majorizer, aborted, pool, tasks, main>>
  /\ UNCHANGED PassOthers

\* pool->Release(majorizer)
ProcessRowsRelease(t) ==
  /\ worker[t].pc = "rows"
  /\ worker[t].row = Len(shards[worker[t].shard])
  /\ pool' = PoolRelease(pool, worker[t].majorizer)
  /\ worker' = [worker EXCEPT ![t] = [pc |-> "wait"]]
  /\ UNCHANGED <<model, training_majorizer, aborted, tasks, main>>
  /\ UNCHANGED PassOthers

\* The ParFor of ProcessShardSet(training) returns, and the rest of
\* SyncModelWithWeights: ParallelProcessColumns takes every available
\* majorizer out of the pool, sums them into training_majorizer_ and retires
\* them; the holdout set has no shard; SetTotalLoss; the closing CHECK_EQ.
PassJoin ==
  /\ main.pc = "join"
  /\ PoolJoined
  /\ LET summed == [training_majorizer EXCEPT
                      !.log_loss = SumLogLoss(pool.contents)]
         total_loss == summed.log_loss
                         + GetRegularizationLoss(settings.l1, model.w)
     IN /\ training_majorizer' = summed
        /\ pool' = [pool EXCEPT !.contents = <<>>]
        /\ model' = [SetTotalLoss(model, total_loss) EXCEPT
                       !.synced_with_weights = TRUE]
        /\ IF pool.num_grabbed # 0
           THEN aborted' = TRUE /\ main' = [main EXCEPT !.pc = "aborted"]
           ELSE UNCHANGED aborted /\ main' = AfterSync
  /\ UNCHANGED <<tasks, worker>>
  /\ UNCHANGED PassOthers

\* training_majorizer_.UpdateMinimum between the two SyncModelWithWeights.
PassUpdate ==
  /\ main.pc = "update"
  /\ \E delta \in Steps(model.w), restart \in BOOLEAN :
       /\ InRange(Moved(model.w, delta))
       /\ restart => delta # Zeros(Len(model.w))
       /\ model' = UpdateMinimum(model, training_majorizer, settings.l1,
                                 settings.allow_undo, delta, restart)
  /\ main' = [main EXCEPT !.pc = "sync", !.sync = 2]
  /\ UNCHANGED <<training_majorizer, aborted, pool, tasks, worker>>
  /\ UNCHANGED PassOthers

NextPass ==
  \/ PassSync
  \/ PassExecute
  \/ \E t \in 1..kThreadCount : ProcessRowsWait(t)
  \/ \E t \in 1..kThreadCount : ProcessRowsGet(t)
  \/ \E t \in 1..kThreadCount : ProcessOneRow(t)
  \/ \E t \in 1..kThreadCount : ProcessRowsRelease(t)
  \/ PassJoin
  \/ PassUpdate

SpecPass == InitPass /\ [][NextPass]_vars

\* A ProcessRows task is waiting in the pool's queue or running.
RowTasksUnfinished ==
  \/ Len(tasks) > 0
  \/ \E t \in 1..kThreadCount : worker[t].pc # "wait"

\* C14: within one batch iteration every read of w by a row-processing
\* worker observes the value w had when the iteration's row pass began, and
\* w is written only when no row-processing task of the iteration is waiting
\* or running, for every assignment of rows to shards and every
\* interleaving of the threads.
C14_ReadsBeforeWrites ==
  /\ [](\A t \in 1..kThreadCount :
          (worker[t].pc = "rows" /\ worker[t].row > 0) =>
            worker[t].read = main.w0)
  /\ [][model'.w # model.w => ~RowTasksUnfinished]_vars

\* Two workers are in the rows of the second row pass of a pass whose update
\* step moved a weight, one of them having read w.
C14_Witness ==
  /\ main.sync = 2
  /\ main.w0 # Zeros(Len(model.w))
  /\ \E t, u \in 1..kThreadCount :
       /\ t # u
       /\ worker[t].pc = "rows"
       /\ worker[t].row > 0
       /\ worker[u].pc = "rows"

---------------------------------------------------------------------------
(* The batch optimizer pass by pass: the loop of                           *)
(* BatchTraining::FitModelWeights runs one MakeOnePass at a time, with     *)
(* set { regularization { l1 } } among the commands.                       *)

MaxPasses == 3

\* The l1 values of set { regularization { l1 } }.
Regularization == {0, 1}

\* set { regularization { l1: l1 } }
SetRegularization(l1) ==
  /\ Running
  /\ settings' = [settings EXCEPT !.l1 = l1]
  /\ Ran("set")
  /\ UNCHANGED <<product_map, j_size, model, training_majorizer,
                 holdout_majorizer, sgd, training, holdout, dependees, aborted,
                 renumbering, scores, pass>>
  /\ UNCHANGED mapVars
  /\ UNCHANGED thrVars
  /\ UNCHANGED restVars

\* One turn of the loop of BatchTraining::FitModelWeights; the turns that
\* follow one another are the iterations of one fit_model_weights command.
FitPass ==
  /\ ~aborted
  /\ pass.n < MaxPasses
  /\ op = "fit_model_weights" \/ ncommands < MaxCommands
  /\ \E delta \in Steps(model.w), restart \in BOOLEAN :
       /\ InRange(Moved(model.w, delta))
       /\ restart => delta # Zeros(Len(model.w))
       /\ Becomes(MakeOnePass(TheWorld, delta, restart))
  /\ op' = "fit_model_weights"
  /\ command' = NoConfig
  /\ ncommands' = IF op = "fit_model_weights" THEN ncommands ELSE ncommands + 1
  /\ UNCHANGED <<renumbering, scores>>
  /\ UNCHANGED mapVars
  /\ UNCHANGED thrVars
  /\ UNCHANGED restVars

NextBoost ==
  \/ ReadData
  \/ \E b \in BOOLEAN : Set(b)
  \/ \E l1 \in Regularization : SetRegularization(l1)
  \/ FitPass
  \/ InitializeBias

SpecBoost == Init /\ [][NextBoost]_vars

\* Sum of fabs(w_j) over the J's.
RECURSIVE SumAbs(_)
SumAbs(w) ==
  IF Len(w) = 0 THEN 0
  ELSE (IF Head(w) < 0 THEN 0 - Head(w) ELSE Head(w)) + SumAbs(Tail(w))

\* Log-loss plus regularization loss of the training rows at the weights w.
TotalLossAt(w) ==
  LogLoss(training.rows, dependees, w) + settings.l1 * SumAbs(w)

\* C11: after every GradBoost::MakeOnePass, whether it made an update, an
\* undo or an inertia restart, model.synced_with_weights is true and
\* model.total_loss is log-loss plus regularization loss at the w the pass
\* ends with.
C11_SyncedAfterPass ==
  (op = "fit_model_weights" /\ ~aborted) =>
    /\ pass.kind \in {"update", "undo", "restart"}
    /\ model.synced_with_weights
    /\ model.total_loss = TotalLossAt(model.w)

\* A pass that undid a step has ended with regularized weights away from 0.
C11_Witness ==
  /\ op = "fit_model_weights"
  /\ ~aborted
  /\ pass.kind = "undo"
  /\ settings.l1 = 1
  /\ \E j \in 1..Len(model.w) : model.w[j] # 0

\* The total loss that the update step of the next pass evaluates, and the
\* previous iteration's total loss that it compares it with.
LossAtTest ==
  BeforeUpdate(TheWorld).training_majorizer.log_loss
    + settings.l1 * SumAbs(BeforeUpdate(TheWorld).model.w)

PrevLossAtTest == BeforeUpdate(TheWorld).model.prev_total_loss

\* A pass has been made by this step.
PassMade == pass'.n = pass.n + 1

\* C12: with allow_undo set, an update step that evaluates a total loss
\* above the previous iteration's total loss restores every w_j to
\* w_j - delta_w_j, sets every delta_w_j to 0 and applies no new coordinate
\* update.
C12_UndoRestores ==
  [][(PassMade /\ settings.allow_undo /\ LossAtTest > PrevLossAtTest) =>
       /\ model'.w = [j \in 1..Len(model.w) |-> model.w[j] - model.delta_w[j]]
       /\ model'.delta_w = Zeros(Len(model.w))
       /\ pass'.kind = "undo"]_vars

\* A pass has undone a step that had moved a weight.
C12_Witness ==
  /\ pass.kind = "undo"
  /\ settings.allow_undo
  /\ pass.prev_at_test < model.prev_total_loss
  /\ \E j \in 1..Len(model.w) : model.w[j] # 0

\* C13: the update step that follows an undo finds prev_total_loss at
\* +infinity when it evaluates its undo test.
C13_InfiniteAfterUndo == pass.follows_undo => pass.prev_at_test = kInfinity

---------------------------------------------------------------------------
(* Feature exploration after fitting: read_data, the passes of             *)
(* fit_model_weights and add_new_product_features with the feature         *)
(* ordering WEIGHT_ABSOLUTE_VALUE and max_product_size unset (0 here), 1   *)
(* or 2.                                                                   *)

SizedExplorationConfigs ==
  [feature_ordering : {"WEIGHT_ABSOLUTE_VALUE"},
   maximum_features_added : {1, 2},
   max_product_size : {0, 1, 2}]

\* The MakeOnePass calls before and between the explorations.
ExplorePasses == 2

NextExplore ==
  \/ ReadData
  \/ pass.n < ExplorePasses /\ FitPass
  \/ \E config \in SizedExplorationConfigs : AddNewProductFeatures(config)

SpecExplore == Init /\ [][NextExplore]_vars

\* The products that the step has added to the product map.
AddedProducts == ValidKeys(product_map') \ ValidKeys(product_map)

\* An add_new_product_features has run in this step.
Explored == op' = "add_new_product_features" /\ ~aborted'

\* C19: every product that add_new_product_features gives a new J was not in
\* the product map before and has at most max_product_size atomic factors;
\* with max_product_size = 1 the call adds no feature and the J count stays.
C19_NewAndSmallProducts ==
  [][Explored =>
       /\ \A k \in ValidKeys(product_map') :
            product_map'.tab[k].j >= Size(product_map) =>
              /\ k \notin ValidKeys(product_map)
              /\ command'.max_product_size # 0 =>
                   Cardinality(k) <= command'.max_product_size
       /\ command'.max_product_size = 1 =>
            /\ AddedProducts = {}
            /\ j_size' = j_size
            /\ Size(product_map') = Size(product_map)]_vars

\* An add_new_product_features with max_product_size = 2 and
\* maximum_features_added = 2 has added the last product of two atoms and
\* passed over the products of three.
C19_Witness ==
  /\ op = "add_new_product_features"
  /\ ~aborted
  /\ command.max_product_size = 2
  /\ command.maximum_features_added = 2
  /\ \A k \in JProducts : Cardinality(k) <= 2 => k \in ValidKeys(product_map)
  /\ \A k \in ValidKeys(product_map) : Cardinality(k) <= 2
  /\ Cardinality(KeyOfJ(product_map, j_size - 1)) = 2

\* The scores that the add_new_product_features of this step has computed.
ExploredScores == ScoreFeatures(TheWorld, command'.feature_ordering)

\* a and b are the two highest-scoring J's: every other J scores below both.
TopTwo(a, b) ==
  /\ a < b
  /\ \A j \in LiveJs(product_map) \ {a, b} :
       /\ ExploredScores[j + 1] < ExploredScores[a + 1]
       /\ ExploredScores[j + 1] < ExploredScores[b + 1]

\* The product of the features of a and b.
ProductOf(a, b) == KeyOfJ(product_map, a) \cup KeyOfJ(product_map, b)

\* The products of two features that are not in the product map and are
\* within the max_product_size of the step's command.
Candidates ==
  {k \in {ProductOf(a, b) : a, b \in LiveJs(product_map)} :
     /\ k \notin ValidKeys(product_map)
     /\ \/ command'.max_product_size = 0
        \/ Cardinality(k) <= command'.max_product_size}

---------------------------------------------------------------------------
(* The command script: sensei::Main, config::Validator and                 *)
(* BatchTraining::Run / RunCommand  (sensei.cc, config.cc,                 *)
(* batch_training.cc).                                                     *)

One == 2              \* the Double 1.0 in the unit a factor is counted in
MaxRepetitions == 2   \* largest repetitions of a repeat command

\* The factors offered: -0.5, 0, 0.5, 1.0 and 1.5.
Factors == -1..(One + 1)

\* sgd { learning_rate { store_total_loss {} maybe_reduce { factor } } },
\* with any of the two sub-commands present.
SgdCommands ==
  {[has |-> "sgd", has_store_total_loss |-> s, has_maybe_reduce |-> m,
    has_factor |-> FALSE, factor |-> 0] : s \in BOOLEAN, m \in BOOLEAN}
  \cup {[has |-> "sgd", has_store_total_loss |-> FALSE,
         has_maybe_reduce |-> TRUE, has_factor |-> TRUE, factor |-> f] :
          f \in Factors}

MaybeReduceCommand(f) ==
  [has |-> "sgd", has_store_total_loss |-> FALSE, has_maybe_reduce |-> TRUE,
   has_factor |-> TRUE, factor |-> f]

StoreTotalLossCommand ==
  [has |-> "sgd", has_store_total_loss |-> TRUE, has_maybe_reduce |-> FALSE,
   has_factor |-> FALSE, factor |-> 0]

\* run_sgd { iterations }
RunSgdCommands ==
  {[has |-> "run_sgd", has_iterations |-> TRUE, iterations |-> n] :
     n \in {-1, 1}}
  \cup {[has |-> "run_sgd", has_iterations |-> FALSE, iterations |-> 0]}

\* The commands that hold no other command.
LeafCommands == SgdCommands \cup RunSgdCommands

\* The repeated field `command` of a repeat and of a command_list.
NestedCommands ==
  {<<c>> : c \in LeafCommands}
  \cup {<<StoreTotalLossCommand, c>> : c \in LeafCommands}

RepeatCommands ==
  {[has |-> "repeat", has_repetitions |-> TRUE, repetitions |-> n,
    command |-> cs] : n \in {-1, 0, MaxRepetitions}, cs \in NestedCommands}
  \cup {[has |-> "repeat", has_repetitions |-> FALSE, repetitions |-> 0,
         command |-> <<StoreTotalLossCommand>>]}

CommandListCommands ==
  {[has |-> "command_list", command |-> cs] : cs \in NestedCommands}

\* The files there are, and the paths a from_file may name.
Paths == {"script"}

FromFileCommands ==
  {[has |-> "from_file", has_path |-> TRUE, path |-> f] :
     f \in Paths \cup {"", "missing"}}
  \cup {[has |-> "from_file", has_path |-> FALSE, path |-> ""]}

Commands ==
  LeafCommands \cup RepeatCommands \cup CommandListCommands
  \cup FromFileCommands

\* What a file may hold: one config::Command in text format.
FileCommands ==
  LeafCommands \cup {[has |-> "command_list", command |-> <<c>>] :
                       c \in LeafCommands}

\* The command lists Main is started with.
Scripts ==
  {<<c>> : c \in Commands}
  \cup {<<first, c>> : first \in {StoreTotalLossCommand}, c \in Commands}

\* config.cc IsGlob
IsGlob(s) == s # ""

\* Validator::Process(const Sgd::LearningRate::MaybeReduce&): TRUE when no
\* error is added.
ProcessMaybeReduce(config) ==
  ~(config.has_factor /\ (config.factor >= 0 \/ config.factor <= One))

\* Validator::Process(const Sgd::LearningRate&), with the Process of
\* Sgd::LearningRate::StoreTotalLoss, which adds no error.
ProcessLearningRate(config) ==
  /\ config.has_maybe_reduce => ProcessMaybeReduce(config)
  /\ (IF config.has_store_total_loss THEN 1 ELSE 0)
       + (IF config.has_maybe_reduce THEN 1 ELSE 0) = 1

\* Validator::Process(const RunSgd&)
ProcessRunSgd(config) ==
  config.has_iterations /\ config.iterations >= 0

\* Validator::Process(const FromFile&): the path is looked at, the file is
\* not.
ProcessFromFile(config) ==
  config.has_path /\ IsGlob(config.path)

RECURSIVE ProcessCommand(_)
\* Validator::Process(const Repeat&)
ProcessRepeat(config) ==
  /\ config.has_repetitions /\ config.repetitions >= 0
  /\ \A i \in 1..Len(config.command) : ProcessCommand(config.command[i])

\* Validator::Process(const CommandList&)
ProcessCommandList(config) ==
  \A i \in 1..Len(config.command) : ProcessCommand(config.command[i])

\* Validator::Process(const Command&): a command of the model has exactly one
\* field set.
ProcessCommand(config) ==
  CASE config.has = "sgd" -> ProcessLearningRate(config)
    [] config.has = "run_sgd" -> ProcessRunSgd(config)
    [] config.has = "repeat" -> ProcessRepeat(config)
    [] config.has = "from_file" -> ProcessFromFile(config)
    [] config.has = "command_list" -> ProcessCommandList(config)

\* Validator::Process(const Flag&), of a flag that has a command_list.
ProcessFlag(command_list) ==
  \A i \in 1..Len(command_list) : ProcessCommand(command_list[i])

\* The process as RunCommand sees it: what has been executed and whether a
\* LOG(FATAL) or a failed CHECK has ended it.
RECURSIVE RunCommand(_, _, _)
RECURSIVE RunCommands(_, _, _, _)
\* for (const config::Command& c : ...command()) RunCommand(c), from the
\* i'th command on.
RunCommands(B, fs, cs, i) ==
  IF i > Len(cs) \/ B.aborted THEN B
  ELSE CHOOSE out \in {RunCommands(b, fs, cs, i + 1) :
                         b \in {RunCommand(B, fs, cs[i])}} : TRUE

RECURSIVE RunRepeat(_, _, _, _)
\* The loop of command.repeat().repetitions() rounds.
RunRepeat(B, fs, cs, n) ==
  IF n = 0 \/ B.aborted THEN B
  ELSE CHOOSE out \in {RunRepeat(b, fs, cs, n - 1) :
                         b \in {RunCommands(B, fs, cs, 1)}} : TRUE

\* BatchTraining::RunCommand.  The handler of a command that holds no other
\* command is kept as the record that it ran.
RunCommand(B, fs, c) ==
  IF B.aborted THEN B
  ELSE IF ~ProcessCommand(c) THEN [B EXCEPT !.aborted = TRUE]
  ELSE CASE c.has = "repeat" -> RunRepeat(B, fs, c.command, c.repetitions)
         [] c.has = "command_list" -> RunCommands(B, fs, c.command, 1)
         [] c.has = "from_file" ->
              IF c.path \notin DOMAIN fs THEN [B EXCEPT !.aborted = TRUE]
              ELSE RunCommand(B, fs, fs[c.path])
         [] OTHER -> [B EXCEPT !.executed = Append(@, c)]

InitScript ==
  /\ fm = NewMap(MapKeys)
  /\ fmEver = {}
  /\ fmGone = {}
  /\ InitThreads
  /\ InitWorld
  /\ IdleStats
  /\ flag \in Scripts
  /\ files \in [Paths -> FileCommands]
  /\ command_queue_ = <<>>
  /\ executed = <<>>
  /\ phase = "flags"

ScriptOthers == <<fm, fmEver, fmGone, mu, pc, tkey, tj, rets, ncalls,
                  product_map, j_size, model, training_majorizer,
                  holdout_majorizer, sgd, training, holdout, dependees,
                  settings, op, command, renumbering, scores, ncommands,
                  pass, statVars>>

\* config::CommandListFromFlags: Validator::ValidateOrDie(flag).
CommandListFromFlags ==
  /\ phase = "flags"
  /\ ~aborted
  /\ IF ProcessFlag(flag)
       THEN phase' = "construct" /\ UNCHANGED aborted
       ELSE phase' = "died" /\ aborted' = TRUE
  /\ UNCHANGED <<flag, files, command_queue_, executed>>
  /\ UNCHANGED ScriptOthers

\* BatchTraining::BatchTraining and Init: the commands are queued.
BatchTrainingInit ==
  /\ phase = "construct"
  /\ command_queue_' = flag
  /\ phase' = "run"
  /\ UNCHANGED <<flag, files, executed, aborted>>
  /\ UNCHANGED ScriptOthers

\* BatchTraining::Run: one round of its loop.
RunNext ==
  /\ phase = "run"
  /\ command_queue_ # <<>>
  /\ LET B == RunCommand([executed |-> executed, aborted |-> FALSE], files,
                         Head(command_queue_))
     IN /\ executed' = B.executed
        /\ aborted' = B.aborted
        /\ phase' = IF B.aborted THEN "died" ELSE "run"
  /\ command_queue_' = Tail(command_queue_)
  /\ UNCHANGED <<flag, files>>
  /\ UNCHANGED ScriptOthers

\* BatchTraining::Run returns when the queue is empty.
RunReturns ==
  /\ phase = "run"
  /\ command_queue_ = <<>>
  /\ phase' = "done"
  /\ UNCHANGED <<flag, files, command_queue_, executed, aborted>>
  /\ UNCHANGED ScriptOthers

NextScript ==
  \/ CommandListFromFlags
  \/ BatchTrainingInit
  \/ RunNext
  \/ RunReturns

SpecScript == InitScript /\ [][NextScript]_vars

\* C21: a script that is one sgd maybe_reduce command with a factor passes
\* validation exactly when 0 < factor < 1, and once Run has returned the
\* accepted command has been executed.
C21_FactorBetweenZeroAndOne ==
  \A f \in Factors :
    flag = <<MaybeReduceCommand(f)>> /\ phase # "flags" =>
      /\ aborted <=> ~(0 < f /\ f < One)
      /\ phase = "done" => executed = flag

\* The command would fail validation, itself or as the content of the file
\* its from_file names.
FailsValidation(c) ==
  \/ ~ProcessCommand(c)
  \/ /\ c.has = "from_file"
     /\ c.path \in DOMAIN files
     /\ ~ProcessCommand(files[c.path])

\* C27: when a command of the script fails validation, be it a command of the
\* list, one nested in a repeat or a command_list, or the content of a file
\* that a from_file names, no command of the script is ever executed.
C27_InvalidScriptRunsNothing ==
  (\E i \in 1..Len(flag) : FailsValidation(flag[i])) => executed = <<>>

---------------------------------------------------------------------------
(* Sgd (sgd.h) with BatchTraining::RunSgdIteration and RunSgdCommand.      *)
(* Learning rates, decay speeds, factors and regularization strengths are  *)
(* counted in halves (One is 1.0); weights and losses are whole numbers,   *)
(* and a product is cut towards zero to the unit of its result.            *)

MaxSgdCommands == 6   \* commands in one run that trains with Sgd

\* common.h Sign
Sign(x) == IF x > 0 THEN 1 ELSE IF x < 0 THEN 0 - 1 ELSE 0

\* x / d in the arithmetic of the model.
Truncated(x, d) == Sign(x) * (Abs(x) \div d)

\* 1 / (1 + exp(x)), to the precision of RowLoss: the slope of the loss.
Sigmoid(x) == IF x >= 1 THEN 0 ELSE 1

\* Sgd::GetLearningRate
GetLearningRate(s, row_count) ==
  Truncated(s.start_learning_rate * One * row_count,
            One * row_count + s.decay_speed * s.learning_rate_counter_)

\* The loop of Sgd::ProcessOneRow over the J's of the extended row: one
\* AddToAtomic for every J that the training mode lets through.
RECURSIVE AddToAtomic(_, _, _, _, _)
AddToAtomic(weights, js, delta, s, m) ==
  IF Len(js) = 0 THEN weights
  ELSE AddToAtomic(
         IF s.training_mode_ = "NEW_FEATURES" /\ ~IsFeatureNew(m, Head(js))
         THEN weights
         ELSE [weights EXCEPT ![Head(js) + 1] = @ + delta],
         Tail(js), delta, s, m)

\* Sgd::ProcessOneRow: the Sgd with the weights_ it leaves.
SgdProcessOneRow(s, m, dep, row, row_count) ==
  LET learning_rate == GetLearningRate(s, row_count)
      sigmoid == Sigmoid(Dot(dep, row.js, s.weights_) * row.y)
      delta == Truncated(learning_rate * row.y * sigmoid, One)
  IN [s EXCEPT !.weights_ =
        AddToAtomic(@, SparseBool(dep, row.js), delta, s, m)]

\* The value the loop of Sgd::ApplyRegularization stores for old_value.
Regularized(old_value, l1, l2, learning_rate) ==
  LET delta == Truncated((l1 * Sign(old_value) + 2 * l2 * old_value)
                           * learning_rate, One * One)
      new_value == old_value - delta
  IN IF Sign(old_value) # Sign(new_value) THEN 0 ELSE new_value

\* An ApplyRegularization that looks at no training mode.
RegularizesAll(s, m, l1, l2, row_count, shards_size) ==
  LET learning_rate == Truncated(GetLearningRate(s, row_count), shards_size)
  IN [s EXCEPT !.weights_ =
        [j1 \in 1..Len(s.weights_) |->
           Regularized(s.weights_[j1], l1, l2, learning_rate)]]

\* Sgd::ApplyRegularization over the J's of the model; l1 and l2 are those
\* of regularizations_.regularization().
SgdApplyRegularization(s, m, l1, l2, row_count, shards_size) ==
  LET learning_rate == Truncated(GetLearningRate(s, row_count), shards_size)
  IN [s EXCEPT !.weights_ =
        [j1 \in 1..Len(s.weights_) |->
           IF /\ j1 <= Len(m.w)
              /\ ~(s.training_mode_ = "NEW_FEATURES"
                   /\ ~IsFeatureNew(m, j1 - 1))
           THEN Regularized(s.weights_[j1], l1, l2, learning_rate)
           ELSE s.weights_[j1]]]

\* The loop of Sgd::ProcessShard over the rows of a shard.
RECURSIVE SgdProcessRows(_, _, _, _, _)
SgdProcessRows(s, m, dep, rows, row_count) ==
  IF Len(rows) = 0 THEN s
  ELSE CHOOSE out \in
         {SgdProcessRows(t, m, dep, Tail(rows), row_count) :
            t \in {[SgdProcessOneRow(s, m, dep, Head(rows), row_count)
                      EXCEPT !.learning_rate_counter_ = @ + 1]}} : TRUE

\* Sgd::ProcessShard run from its first line to its last by one thread.
SgdProcessShard(s, m, dep, rows, l1, l2, row_count, shards_size) ==
  SgdApplyRegularization(SgdProcessRows(s, m, dep, rows, row_count), m,
                         l1, l2, row_count, shards_size)

\* Sgd::UpdateModel
SgdUpdateModel(s, m) ==
  [m EXCEPT !.w = [j1 \in 1..Len(m.w) |-> s.weights_[j1]]]

\* Sgd::MakeOnePass on the world's training set, whose rows are in one
\* shard: ParFor has one call of ProcessShard to make.
MakeOnePassSgd(W) ==
  IF GetSize(W.model) # W.sgd.weights_length THEN Abort(W)
  ELSE
    LET row_count == StatsRowCount(W.training.stats)
        loaded == [W.sgd EXCEPT !.weights_ = W.model.w]
        s == SgdProcessShard(loaded, W.model, W.dependees, W.training.rows,
                             W.settings.l1 * One, 0, row_count, 1)
    IN IF s.learning_rate_counter_ % row_count # 0 THEN Abort(W)
       ELSE [W EXCEPT !.sgd = s,
                      !.model = [SgdUpdateModel(s, W.model) EXCEPT
                                   !.synced_with_weights = FALSE]]

\* Sgd::IsTrainingValid, of an Sgd whose data_ is set.
IsTrainingValid(W) ==
  /\ W.sgd.has_start_learning_rate
  /\ StatsRowCount(W.training.stats) # 0

\* BatchTraining::RunSgdIteration of run_sgd { iterations: 1 }.
RunSgdIterationOnce(W, only_new_features) ==
  IF ~W.settings.has_data THEN Abort(W)
  ELSE IF ~IsTrainingValid(W) THEN W
  ELSE MakeOnePassSgd(
         [W EXCEPT !.sgd.training_mode_ =
            IF only_new_features THEN "NEW_FEATURES" ELSE "ALL_FEATURES"])

\* A DecreaseLearningRate that applies the factor twice.
DecreaseTwice(s, factor) ==
  [s EXCEPT !.start_learning_rate =
              Truncated(Truncated(@ * factor, One) * factor, One),
            !.has_start_learning_rate = TRUE]

\* Sgd::DecreaseLearningRate
DecreaseLearningRate(s, factor) ==
  [s EXCEPT !.start_learning_rate = Truncated(@ * factor, One),
            !.has_start_learning_rate = TRUE]

\* Sgd::RunCommand of a command that has a learning_rate.
SgdRunCommand(W, c) ==
  IF ~W.model.synced_with_weights THEN Abort(W)
  ELSE IF c.has_store_total_loss
  THEN [W EXCEPT !.sgd.prev_total_loss_ = W.model.total_loss]
  ELSE IF c.has_maybe_reduce
  THEN IF W.sgd.prev_total_loss_ = kInfinity THEN Abort(W)
       ELSE IF W.sgd.prev_total_loss_ < W.model.total_loss
       THEN [W EXCEPT !.sgd = DecreaseLearningRate(@, c.factor)]
       ELSE W
  ELSE Abort(W)

\* BatchTraining::RunSgdCommand
RunSgdCommandIn(W, c) ==
  IF ~W.settings.has_data THEN Abort(W)
  ELSE LET synced == SyncWorld(W)
       IN IF ~synced.ok THEN Abort(synced.world)
          ELSE SgdRunCommand(synced.world, c)

RunningSgd == ~aborted /\ ncommands < MaxSgdCommands

\* The schedules of set { sgd_learning_rate_schedule {} }: a start of 4.0,
\* with or without a decay speed of 1.0.
Schedules ==
  {[has_start_learning_rate |-> TRUE, start_learning_rate |-> 4 * One,
    has_decay_speed |-> d, decay_speed |-> One] : d \in BOOLEAN}

\* Sgd::SetLearningRateSchedule
SetLearningRateSchedule(s, schedule) ==
  LET started ==
        IF schedule.has_start_learning_rate
        THEN [s EXCEPT !.start_learning_rate = schedule.start_learning_rate,
                       !.has_start_learning_rate = TRUE,
                       !.learning_rate_counter_ = 0]
        ELSE s
  IN IF schedule.has_decay_speed
     THEN [started EXCEPT !.decay_speed = schedule.decay_speed]
     ELSE started

\* set { sgd_learning_rate_schedule { ... } }
SetSchedule(schedule) ==
  /\ RunningSgd
  /\ sgd' = SetLearningRateSchedule(sgd, schedule)
  /\ RanWith("set", schedule)
  /\ UNCHANGED <<product_map, j_size, model, training_majorizer,
                 holdout_majorizer, training, holdout, dependees, settings,
                 aborted, renumbering, scores, pass>>
  /\ UNCHANGED mapVars
  /\ UNCHANGED thrVars
  /\ UNCHANGED restVars

\* run_sgd { iterations: 1  only_new_features: b }
RunSgdPass(only_new_features) ==
  /\ RunningSgd
  /\ Becomes(RunSgdIterationOnce(TheWorld, only_new_features))
  /\ RanWith("run_sgd", [only_new_features |-> only_new_features])
  /\ UNCHANGED <<renumbering, scores>>
  /\ UNCHANGED mapVars
  /\ UNCHANGED thrVars
  /\ UNCHANGED restVars

\* sgd { learning_rate { ... } }, handed to BatchTraining::RunSgdCommand.
RunSgdCommand(c) ==
  /\ RunningSgd
  /\ Becomes(RunSgdCommandIn(TheWorld, c))
  /\ RanWith("sgd", c)
  /\ UNCHANGED <<renumbering, scores>>
  /\ UNCHANGED mapVars
  /\ UNCHANGED thrVars
  /\ UNCHANGED restVars

NextSgd ==
  \/ ReadData
  \/ \E schedule \in Schedules : SetSchedule(schedule)
  \/ \E only_new_features \in BOOLEAN : RunSgdPass(only_new_features)
  \/ \E c \in SgdCommands : RunSgdCommand(c)

SpecSgd == Init /\ [][NextSgd]_vars

\* C22: an executed maybe_reduce { factor } multiplies start_learning_rate
\* by factor, once, when the total loss at the current weights is greater
\* than the one latched by the most recent store_total_loss, and leaves it
\* alone otherwise; the latch is the total loss at the weights of the
\* store_total_loss and no other command moves it.
C22_ReducesOnceWhenLossGrew ==
  [][/\ (op' = "sgd" /\ ~aborted' /\ command'.has_store_total_loss) =>
          sgd'.prev_total_loss_ = TotalLossAt(model.w)
     /\ ~(op' = "sgd" /\ command'.has_store_total_loss) =>
          sgd'.prev_total_loss_ = sgd.prev_total_loss_
     /\ (/\ op' = "sgd"
         /\ ~aborted'
         /\ ~command'.has_store_total_loss
         /\ command'.has_maybe_reduce
         /\ command'.has_factor) =>
          sgd'.start_learning_rate =
            IF TotalLossAt(model.w) > sgd.prev_total_loss_
            THEN Truncated(sgd.start_learning_rate * command'.factor, One)
            ELSE sgd.start_learning_rate]_vars

\* A maybe_reduce { factor: 0.5 } has halved the start_learning_rate of 4.0
\* that the schedule had set.
C22_Witness ==
  /\ op = "sgd"
  /\ ~aborted
  /\ command = MaybeReduceCommand(1)
  /\ sgd.prev_total_loss_ < model.total_loss
  /\ sgd.start_learning_rate = 2 * One

---------------------------------------------------------------------------
(* One run_sgd command on a training set of NumShards shards, thread by     *)
(* thread: Sgd::MakeOnePass with ParFor, the FixedSizeThreadPool and the    *)
(* per_thread_pool_  (sgd.h, concurrency.h).  Thread 0 is the thread that   *)
(* called MakeOnePass; threads 1..kThreadCount are those of the pool.  A    *)
(* row is processed in two steps, the reads of its Dot and the AddToAtomic  *)
(* calls that follow; ApplyRegularization is one step.                      *)

SgdPasses == 2   \* iterations of the run_sgd command

\* config::Set::Regularization
NoRegularization == [l1 |-> 0, l2 |-> 0, l1_at_weight_zero |-> 0]

\* The settings of one variant that are not all zero.
SomeRegularization ==
  {[l1 |-> One, l2 |-> 0, l1_at_weight_zero |-> 0],
   [l1 |-> 0, l2 |-> One, l1_at_weight_zero |-> 0],
   [l1 |-> 0, l2 |-> 0, l1_at_weight_zero |-> One]}

\* The Regularizations that set commands are taken to have left: any base
\* variant, with at most one of the other three variants set.
RegularizationChoices ==
  LET base == [l1 : {0, One}, l2 : {0, One}, l1_at_weight_zero : {0, One}]
      none == [regularization_ |-> NoRegularization,
               regularization_div_sqrt_n_ |-> NoRegularization,
               regularization_mul_sqrt_n_ |-> NoRegularization,
               regularization_confidence_ |-> NoRegularization]
  IN {[none EXCEPT !.regularization_ = b] : b \in base}
     \cup {[none EXCEPT !.regularization_ = b,
                        !.regularization_div_sqrt_n_ = r] :
             b \in base, r \in SomeRegularization}
     \cup {[none EXCEPT !.regularization_ = b,
                        !.regularization_mul_sqrt_n_ = r] :
             b \in base, r \in SomeRegularization}
     \cup {[none EXCEPT !.regularization_ = b,
                        !.regularization_confidence_ = r] :
             b \in base, r \in SomeRegularization}

\* A test that lets every setting of the base variant through.
OtherVariantsSet(r) ==
  \/ r.regularization_div_sqrt_n_ # NoRegularization
  \/ r.regularization_mul_sqrt_n_ # NoRegularization
  \/ r.regularization_confidence_ # NoRegularization

\* Regularizations::IsNonStandard
IsNonStandard(r) ==
  \/ r.regularization_.l1_at_weight_zero # 0
  \/ r.regularization_div_sqrt_n_.l1 # 0
  \/ r.regularization_div_sqrt_n_.l2 # 0
  \/ r.regularization_div_sqrt_n_.l1_at_weight_zero # 0
  \/ r.regularization_mul_sqrt_n_.l1 # 0
  \/ r.regularization_mul_sqrt_n_.l2 # 0
  \/ r.regularization_mul_sqrt_n_.l1_at_weight_zero # 0
  \/ r.regularization_confidence_.l1 # 0
  \/ r.regularization_confidence_.l2 # 0
  \/ r.regularization_confidence_.l1_at_weight_zero # 0

\* The threads that can be inside Sgd::ProcessShard.
SgdThreads == 0..kThreadCount

\* data_->GetTraining().GetStats().RowCount()
TrainingRowCount == Len(RowsUpTo(Len(shards)))

\* The model after read_data and one add_new_product_features: the bias and
\* the atoms were created first, the product J after them.
SgdModels ==
  {[ModelSetSize(ModelSetSize(NewModel, RowCount(StatsDependees) - 1),
                 RowCount(StatsDependees))
      EXCEPT !.w = [j1 \in 1..RowCount(StatsDependees) |-> w0]] :
     w0 \in {0, 1}}

InitSgdPass ==
  /\ fm = NewMap(MapKeys)
  /\ fmEver = {}
  /\ fmGone = {}
  /\ InitThreads
  /\ product_map = NewMap(JProducts)
  /\ j_size = RowCount(StatsDependees)
  /\ shards \in [1..NumShards -> ShardChoices]
  /\ model \in SgdModels
  /\ training_majorizer = MajorizerSetSize(NewMajorizer,
                                           RowCount(StatsDependees))
  /\ holdout_majorizer = MajorizerSetSize(NewMajorizer,
                                          RowCount(StatsDependees))
  /\ \E schedule \in Schedules, deterministic \in BOOLEAN :
       sgd = [SetLearningRateSchedule(NewSgd, schedule) EXCEPT
                !.weights_length = RowCount(StatsDependees),
                !.deterministic_ = deterministic]
  /\ training = NewShardSet
  /\ holdout = NewShardSet
  /\ dependees = StatsDependees
  /\ \E r \in RegularizationChoices :
       settings = [allow_undo |-> FALSE, has_data |-> TRUE, l1 |-> 0,
                   regularizations |-> r]
  /\ aborted = FALSE
  /\ op = "run_sgd"
  /\ command \in [only_new_features : BOOLEAN]
  /\ renumbering = NoRenumbering
  /\ scores = <<>>
  /\ ncommands = 0
  /\ pass = NoPass
  /\ stats_ = StatsReset(0)
  /\ shard_dependees = StatsDependees
  /\ pool = NewPool(kThreadCount, 0, "PerThread")
  /\ tasks = <<>>
  /\ worker = [t \in SgdThreads |-> [pc |-> "wait"]]
  /\ main = [pc |-> "load", i |-> 0, n |-> 0, w0 |-> <<>>, s0 |-> NewSgd]
  /\ applied = NoRenumbering
  /\ IdleScript

SgdPassOthers == <<fm, fmEver, fmGone, mu, pc, tkey, tj, rets, ncalls,
                   product_map, j_size, training_majorizer,
                   holdout_majorizer, training, holdout, dependees, settings,
                   op, command, renumbering, scores, ncommands, pass,
                   shards, stats_, shard_dependees, applied, scriptVars>>

\* A ParFor that takes the thread pool whatever deterministic is.
ParForPooled(deterministic) == "execute"

\* concurrency::ParFor: where its caller goes next, into the loop that calls
\* f(item) itself or into the loop of pool.Execute.
ParFor(deterministic) == IF deterministic THEN "serial" ELSE "execute"

\* BatchTraining::RunSgdIteration up to the ParFor of the next MakeOnePass:
\* SetTrainingMode before the first pass, then the CHECKs of MakeOnePass and
\* the load of weights_ from model_->w.
SgdLoad ==
  /\ main.pc = "load"
  /\ ~aborted
  /\ IF \/ IsNonStandard(settings.regularizations)
        \/ GetSize(model) # sgd.weights_length
     THEN /\ aborted' = TRUE
          /\ main' = [main EXCEPT !.pc = "rejected"]
          /\ UNCHANGED sgd
     ELSE LET loaded ==
                [sgd EXCEPT !.weights_ = model.w,
                            !.training_mode_ =
                               IF command.only_new_features
                               THEN "NEW_FEATURES" ELSE "ALL_FEATURES"]
          IN /\ sgd' = loaded
             /\ IF pool.num_grabbed # 0
                THEN /\ aborted' = TRUE
                     /\ main' = [main EXCEPT !.pc = "aborted"]
                ELSE /\ UNCHANGED aborted
                     /\ main' = [main EXCEPT
                                   !.pc = ParFor(sgd.deterministic_),
                                   !.i = 0, !.w0 = model.w, !.s0 = loaded]
  /\ UNCHANGED <<model, pool, tasks, worker>>
  /\ UNCHANGED SgdPassOthers

\* ParFor with deterministic: the calling thread enters f(item) for the next
\* shard once it has returned from the one before.
SgdSerial ==
  /\ main.pc = "serial"
  /\ worker[0].pc = "wait"
  /\ main.i < Len(shards)
  /\ worker' = [worker EXCEPT ![0] = [pc |-> "get", shard |-> main.i + 1]]
  /\ main' = [main EXCEPT !.i = @ + 1]
  /\ UNCHANGED <<model, sgd, aborted, pool, tasks>>
  /\ UNCHANGED SgdPassOthers

\* ParFor without deterministic: pool.Execute of the task of the next shard.
SgdExecute ==
  /\ main.pc = "execute"
  /\ tasks' = Append(tasks, main.i + 1)
  /\ main' = [main EXCEPT !.pc = IF main.i + 1 = Len(shards) THEN "join"
                                 ELSE "execute",
                          !.i = @ + 1]
  /\ UNCHANGED <<model, sgd, aborted, pool, worker>>
  /\ UNCHANGED SgdPassOthers

\* tasks_.Wait(&task) of a pool thread returns a ProcessShard task.
SgdWait(t) ==
  /\ t # 0
  /\ worker[t].pc = "wait"
  /\ Len(tasks) > 0
  /\ worker' = [worker EXCEPT ![t] = [pc |-> "get", shard |-> Head(tasks)]]
  /\ tasks' = Tail(tasks)
  /\ UNCHANGED <<model, sgd, aborted, pool, main>>
  /\ UNCHANGED SgdPassOthers

\* PerThread* per_thread = per_thread_pool_.Get()
SgdGet(t) ==
  /\ worker[t].pc = "get"
  /\ pool.num_grabbed < pool.max_size
  /\ LET g == PoolGet(pool, "PerThread")
     IN /\ pool' = g.pool
        /\ worker' = [worker EXCEPT ![t] = [pc |-> "rows",
                                            shard |-> worker[t].shard,
                                            row |-> 0,
                                            per_thread |-> g.result]]
  /\ UNCHANGED <<model, sgd, aborted, tasks, main>>
  /\ UNCHANGED SgdPassOthers

\* Sgd::ProcessOneRow of the next row up to its loop: the learning rate and
\* the Dot are read and delta is computed.
SgdRowRead(t) ==
  /\ worker[t].pc = "rows"
  /\ worker[t].row < Len(shards[worker[t].shard])
  /\ LET row == shards[worker[t].shard][worker[t].row + 1]
         learning_rate == GetLearningRate(sgd, TrainingRowCount)
         sigmoid == Sigmoid(Dot(dependees, row.js, sgd.weights_) * row.y)
     IN worker' = [worker EXCEPT ![t] =
                     [pc |-> "add", shard |-> worker[t].shard,
                      row |-> worker[t].row,
                      per_thread |-> worker[t].per_thread,
                      delta |-> Truncated(learning_rate * row.y * sigmoid,
                                          One)]]
  /\ UNCHANGED <<model, sgd, aborted, pool, tasks, main>>
  /\ UNCHANGED SgdPassOthers

\* The AddToAtomic loop of the row and learning_rate_counter_.fetch_add(1).
SgdRowAdd(t) ==
  /\ worker[t].pc = "add"
  /\ LET row == shards[worker[t].shard][worker[t].row + 1]
     IN sgd' = [sgd EXCEPT
                  !.weights_ = AddToAtomic(@, SparseBool(dependees, row.js),
                                           worker[t].delta, sgd, model),
                  !.learning_rate_counter_ = @ + 1]
  /\ worker' = [worker EXCEPT ![t] =
                  [pc |-> "rows", shard |-> worker[t].shard,
                   row |-> worker[t].row + 1,
                   per_thread |-> worker[t].per_thread]]
  /\ UNCHANGED <<model, aborted, pool, tasks, main>>
  /\ UNCHANGED SgdPassOthers

\* ApplyRegularization() after the last row of the shard.
SgdRegularize(t) ==
  /\ worker[t].pc = "rows"
  /\ worker[t].row = Len(shards[worker[t].shard])
  /\ sgd' = SgdApplyRegularization(
              sgd, model, settings.regularizations.regularization_.l1,
              settings.regularizations.regularization_.l2,
              TrainingRowCount, Len(shards))
  /\ worker' = [worker EXCEPT ![t].pc = "release"]
  /\ UNCHANGED <<model, aborted, pool, tasks, main>>
  /\ UNCHANGED SgdPassOthers

\* per_thread_pool_.Release(per_thread)
SgdRelease(t) ==
  /\ worker[t].pc = "release"
  /\ pool' = PoolRelease(pool, worker[t].per_thread)
  /\ worker' = [worker EXCEPT ![t] = [pc |-> "wait"]]
  /\ UNCHANGED <<model, sgd, aborted, tasks, main>>
  /\ UNCHANGED SgdPassOthers

\* ParFor has returned (its loop is over or its thread pool is destroyed):
\* the two CHECK_EQ's, UpdateModel and the end of MakeOnePass.
SgdJoin ==
  /\ \/ main.pc = "join" /\ PoolJoined
     \/ main.pc = "serial" /\ main.i = Len(shards) /\ worker[0].pc = "wait"
  /\ IF \/ pool.num_grabbed # 0
        \/ sgd.learning_rate_counter_ % TrainingRowCount # 0
     THEN /\ aborted' = TRUE
          /\ main' = [main EXCEPT !.pc = "aborted"]
          /\ UNCHANGED model
     ELSE /\ UNCHANGED aborted
          /\ main' = [main EXCEPT !.pc = "done", !.n = @ + 1]
          /\ model' = [SgdUpdateModel(sgd, model) EXCEPT
                         !.synced_with_weights = FALSE]
  /\ UNCHANGED <<sgd, pool, tasks, worker>>
  /\ UNCHANGED SgdPassOthers

\* The loop of RunSgdIteration goes round.
SgdAgain ==
  /\ main.pc = "done"
  /\ main.n < SgdPasses
  /\ main' = [main EXCEPT !.pc = "load"]
  /\ UNCHANGED <<model, sgd, aborted, pool, tasks, worker>>
  /\ UNCHANGED SgdPassOthers

NextSgdPass ==
  \/ SgdLoad
  \/ SgdSerial
  \/ SgdExecute
  \/ \E t \in SgdThreads : SgdWait(t)
  \/ \E t \in SgdThreads : SgdGet(t)
  \/ \E t \in SgdThreads : SgdRowRead(t)
  \/ \E t \in SgdThreads : SgdRowAdd(t)
  \/ \E t \in SgdThreads : SgdRegularize(t)
  \/ \E t \in SgdThreads : SgdRelease(t)
  \/ SgdJoin
  \/ SgdAgain

SpecSgdPass == InitSgdPass /\ [][NextSgdPass]_vars

\* MakeOnePass has got to its first CHECK.
SgdPassStarted == main.pc # "load" \/ main.n > 0

\* C23, as stated: an SGD pass is accepted whenever the three variants other
\* than base are zero, whatever the fields of base are, and is aborted
\* whenever a field of one of the three is non-zero.
C23_BaseIsFree ==
  SgdPassStarted =>
    (main.pc = "rejected" <=> OtherVariantsSet(settings.regularizations))

\* C23, amended: an SGD pass is accepted exactly when the three variants
\* other than base are zero and l1_at_weight_zero of base is zero too; l1 and
\* l2 of base are free.
C23_BaseZeroAtWeightZero ==
  SgdPassStarted =>
    (main.pc = "rejected" <=>
       \/ OtherVariantsSet(settings.regularizations)
       \/ settings.regularizations.regularization_.l1_at_weight_zero # 0)

\* A pass has been accepted and has ended with l1 and l2 of base set.
C23_Witness ==
  /\ main.pc = "done"
  /\ ~aborted
  /\ settings.regularizations.regularization_.l1 = One
  /\ settings.regularizations.regularization_.l2 = One

\* J is not new: its creation_time is not the model's current_creation_time.
OldJs == {j \in 0..(GetSize(model) - 1) : ~IsFeatureNew(model, j)}

\* C24: in a pass with only_new_features no weight of a J that is not new
\* moves: weights_ keeps the value loaded for it through every row and every
\* ApplyRegularization of the pass, and model.w keeps it when the pass ends.
C24_OldWeightsStay ==
  /\ []((command.only_new_features
         /\ main.pc \in {"serial", "execute", "join", "done"}) =>
          \A j \in OldJs : sgd.weights_[j + 1] = main.w0[j + 1])
  /\ [][command.only_new_features =>
          \A j \in OldJs : model'.w[j + 1] = model.w[j + 1]]_vars

\* A pass with only_new_features, run with an l1 on weights that were not
\* zero, has ended and has moved the weight of the new J.
C24_Witness ==
  /\ command.only_new_features
  /\ main.pc = "done"
  /\ settings.regularizations.regularization_.l1 = One
  /\ \A j \in OldJs : main.w0[j + 1] = 1
  /\ \E j \in 0..(GetSize(model) - 1) :
       j \notin OldJs /\ model.w[j + 1] # main.w0[j + 1]

\* The shards from the i'th on, each processed from beginning to end before
\* the next one is begun.
RECURSIVE SgdProcessShards(_, _)
SgdProcessShards(s, i) ==
  IF i > Len(shards) THEN s
  ELSE CHOOSE out \in
         {SgdProcessShards(t, i + 1) :
            t \in {SgdProcessShard(
                     s, model, dependees, shards[i],
                     settings.regularizations.regularization_.l1,
                     settings.regularizations.regularization_.l2,
                     TrainingRowCount, Len(shards))}} : TRUE

\* C25: with deterministic the pass is made by the calling thread alone, no
\* task is queued and no pool thread leaves its wait; the shard it is in is
\* the next in shard order and is finished before the following one is
\* begun; and the weights the pass ends with are those of processing the
\* shards one after the other from the state the pass was loaded with, so
\* that they are a function of that state.
C25_DeterministicIsSerial ==
  /\ [](sgd.deterministic_ =>
          /\ Len(tasks) = 0
          /\ \A t \in 1..kThreadCount : worker[t].pc = "wait"
          /\ worker[0].pc # "wait" => worker[0].shard = main.i
          /\ (main.pc = "done" /\ ~aborted) =>
               model.w = SgdProcessShards(main.s0, 1).weights_)
  /\ [][sgd.deterministic_ =>
          /\ main'.i # main.i =>
               /\ worker[0].pc = "wait"
               /\ main'.i = main.i + 1 \/ main'.i = 0
          /\ sgd'.weights_ # sgd.weights_ =>
               worker[0].pc # "wait" \/ main.pc = "load"]_vars

\* The last deterministic pass over two shards of two rows has ended and has
\* moved the weights.
C25_Witness ==
  /\ sgd.deterministic_
  /\ main.pc = "done"
  /\ main.n = SgdPasses
  /\ \A i \in 1..Len(shards) : Len(shards[i]) = 2
  /\ model.w # main.w0

---------------------------------------------------------------------------
(* DataReader::Run thread by thread: the files of one data set are handed  *)
(* to ParFor; each pool thread takes a file, waits for the semaphore of    *)
(* the MultiDataReader, reads the rows of the file into a Shard::Builder   *)
(* of its own and hands the shards it built to the data::Adder.  shards is *)
(* the shards_ of the ShardSet that is read, product_map the map the       *)
(* FeatureSpecs intern into, command the read_data config, main the thread *)
(* that runs the command, with the semaphore and the row_id_sequence_.     *)

NumFiles == 2         \* files the glob of the data set matches
MaxFileRows == 2      \* rows of one file
ReadMaxShardSize == 3 \* max_shard_size of the set command before read_data
MaxRowSize == 4       \* entries of one row handed to a Shard::Builder
MaxBuilderRows == 4   \* AddRow calls on one Shard::Builder

\* Shard::XjBoolCount
ShardXjBoolCount(shard) ==
  NonZerosCount([i \in 1..Len(shard) |-> shard[i].js])

\* An AddRow that opens a shard only when there is none.
AddRowToLast(shards_, max_size_, js, y, id) ==
  LET row == [js |-> js, y |-> y, id |-> id]
  IN IF Len(shards_) = 0 THEN <<<<row>>>>
     ELSE [shards_ EXCEPT ![Len(shards_)] = Append(@, row)]

\* Shard::Builder::AddRow: the shards_ of the builder after the call.
BuilderAddRow(shards_, max_size_, js, y, id) ==
  LET row == [js |-> js, y |-> y, id |-> id]
      opened ==
        IF Len(shards_) = 0
           \/ (ShardXjBoolCount(shards_[Len(shards_)]) > 0
               /\ ShardXjBoolCount(shards_[Len(shards_)]) + Len(js)
                    > max_size_)
        THEN Append(shards_, <<>>)
        ELSE shards_
  IN [opened EXCEPT ![Len(opened)] = Append(@, row)]

RowChoices == {[atoms |-> a, y |-> 1] : a \in {{0}, {1}, {0, 1}}}

FileChoices ==
  UNION {[1..n -> RowChoices] : n \in 1..MaxFileRows}

\* DataReader::AddRow of one row: [map, id, builder].
ReaderAddRow(st, row) ==
  CHOOSE out \in
    {[map |-> r.map, id |-> st.id + 1,
      builder |-> BuilderAddRow(st.builder, ReadMaxShardSize, r.js, row.y,
                                st.id)] :
       r \in {InternAll(st.map, RowProducts(row.atoms), <<>>)}} : TRUE

\* DataReader::ReadLibsvmFile from line i on: [map, id, builder].
RECURSIVE ReadLibsvmFile(_, _, _)
ReadLibsvmFile(st, lines, i) ==
  IF i > Len(lines) THEN st
  ELSE CHOOSE out \in {ReadLibsvmFile(r, lines, i + 1) :
                         r \in {ReaderAddRow(st, lines[i])}} : TRUE

\* The files read one after the other in the order of files_:
\* [map, id, shards].
RECURSIVE ReadFilesInOrder(_, _, _)
ReadFilesInOrder(st, fs, i) ==
  IF i > Len(fs) THEN st
  ELSE CHOOSE out \in
         {ReadFilesInOrder([map |-> r.map, id |-> r.id,
                            shards |-> st.shards \o r.builder], fs, i + 1) :
            r \in {ReadLibsvmFile([map |-> st.map, id |-> st.id,
                                   builder |-> <<>>], fs[i], 1)}} : TRUE

InitRead ==
  /\ fm = NewMap(MapKeys)
  /\ fmEver = {}
  /\ fmGone = {}
  /\ InitThreads
  /\ product_map = NewMap(JProducts)
  /\ j_size = 0
  /\ model = NewModel
  /\ training_majorizer = NewMajorizer
  /\ holdout_majorizer = NewMajorizer
  /\ sgd = [NewSgd EXCEPT !.deterministic_ = TRUE]
  /\ training = NewShardSet
  /\ holdout = NewShardSet
  /\ dependees = <<>>
  /\ settings = [allow_undo |-> FALSE, has_data |-> FALSE, l1 |-> 0,
                 deterministic |-> TRUE, max_shard_size |-> ReadMaxShardSize]
  /\ aborted = FALSE
  /\ op = "read_data"
  /\ command \in [files : [1..NumFiles -> FileChoices],
                  thread_count : 1..NumThreads]
  /\ renumbering = NoRenumbering
  /\ scores = <<>>
  /\ ncommands = 0
  /\ pass = NoPass
  /\ shards = <<>>
  /\ stats_ = StatsReset(0)
  /\ shard_dependees = <<>>
  /\ pool = [contents |-> <<>>, num_grabbed |-> 0, max_size |-> 0]
  /\ tasks = <<>>
  /\ worker = [t \in 1..kThreadCount |-> [pc |-> "wait"]]
  /\ main = [pc |-> "construct", i |-> 0, semaphore |-> 0, next_id |-> 0]
  /\ applied = NoRenumbering
  /\ IdleScript

ReadOthers == <<fm, fmEver, fmGone, mu, pc, tkey, tj, rets, ncalls,
                j_size, model, training_majorizer, holdout_majorizer, sgd,
                training, holdout, dependees, settings, aborted, op, command,
                renumbering, scores, ncommands, pass, stats_,
                shard_dependees, pool, applied, scriptVars>>

\* concurrency::ParFor(items, f): ParFor(items, false, f).
ParForItems == ParFor(FALSE)

\* MultiDataReader(config, world): semaphore_(thread_count) and the
\* row_id_sequence_; then DataReader::Run up to its ParFor(files_, f).
MultiDataReaderRun ==
  /\ main.pc = "construct"
  /\ main' = [main EXCEPT !.pc = ParForItems,
                          !.semaphore = command.thread_count]
  /\ UNCHANGED <<product_map, shards, tasks, worker>>
  /\ UNCHANGED ReadOthers

\* ParFor without deterministic: pool.Execute of the task of the next file.
ReadExecute ==
  /\ main.pc = "execute"
  /\ tasks' = Append(tasks, main.i + 1)
  /\ main' = [main EXCEPT
                !.pc = IF main.i + 1 = Len(command.files) THEN "join"
                       ELSE "execute",
                !.i = main.i + 1]
  /\ UNCHANGED <<product_map, shards, worker>>
  /\ UNCHANGED ReadOthers

\* A pool thread takes the next task.
ReadWait(t) ==
  /\ worker[t].pc = "wait"
  /\ Len(tasks) > 0
  /\ worker' = [worker EXCEPT ![t] = [pc |-> "lock", file |-> Head(tasks)]]
  /\ tasks' = Tail(tasks)
  /\ UNCHANGED <<product_map, shards, main>>
  /\ UNCHANGED ReadOthers

\* DataReader::ReadFile: SemaphoreLock lock(semaphore_), then the
\* Shard::Builder of ReadLibsvmFile.
ReadFile(t) ==
  /\ worker[t].pc = "lock"
  /\ main.semaphore > 0
  /\ main' = [main EXCEPT !.semaphore = @ - 1]
  /\ worker' = [worker EXCEPT ![t] = [pc |-> "lines",
                                      file |-> worker[t].file,
                                      line |-> 0, builder |-> <<>>]]
  /\ UNCHANGED <<product_map, shards, tasks>>
  /\ UNCHANGED ReadOthers

\* DataReader::AddRow of the next line of the file.
ReadLine(t) ==
  /\ worker[t].pc = "lines"
  /\ worker[t].line < Len(command.files[worker[t].file])
  /\ LET r == ReaderAddRow([map |-> product_map, id |-> main.next_id,
                            builder |-> worker[t].builder],
                           command.files[worker[t].file][worker[t].line + 1])
     IN /\ product_map' = r.map
        /\ main' = [main EXCEPT !.next_id = r.id]
        /\ worker' = [worker EXCEPT ![t].line = @ + 1,
                                    ![t].builder = r.builder]
  /\ UNCHANGED <<shards, tasks>>
  /\ UNCHANGED ReadOthers

\* data_adder_.Add(count, &data_shards) after the last line, and the
\* SemaphoreLock given back as ReadFile returns.
AdderAdd(t) ==
  /\ worker[t].pc = "lines"
  /\ worker[t].line = Len(command.files[worker[t].file])
  /\ shards' = shards \o worker[t].builder
  /\ main' = [main EXCEPT !.semaphore = @ + 1]
  /\ worker' = [worker EXCEPT ![t] = [pc |-> "wait"]]
  /\ UNCHANGED <<product_map, tasks>>
  /\ UNCHANGED ReadOthers

\* ~FixedSizeThreadPool: every task has been run.
ReadJoin ==
  /\ main.pc = "join"
  /\ Len(tasks) = 0
  /\ \A t \in 1..kThreadCount : worker[t].pc = "wait"
  /\ main' = [main EXCEPT !.pc = "done"]
  /\ UNCHANGED <<product_map, shards, tasks, worker>>
  /\ UNCHANGED ReadOthers

NextRead ==
  \/ MultiDataReaderRun
  \/ ReadExecute
  \/ \E t \in 1..kThreadCount : ReadWait(t)
  \/ \E t \in 1..kThreadCount : ReadFile(t)
  \/ \E t \in 1..kThreadCount : ReadLine(t)
  \/ \E t \in 1..kThreadCount : AdderAdd(t)
  \/ ReadJoin

SpecRead == InitRead /\ [][NextRead]_vars

\* What a run of read_data leaves for the rest of the script: the J of every
\* feature and the shards with their rows and row ids, in shard order.
ReadOutcome == [map |-> product_map.tab, shards |-> shards]

InOrderOutcome ==
  LET r == ReadFilesInOrder([map |-> NewMap(JProducts), id |-> 0,
                             shards |-> <<>>], command.files, 1)
  IN [map |-> r.map.tab, shards |-> r.shards]

\* C26: with deterministic set, every run of read_data over the same files
\* ends with the same J for each feature, the same row ids and the same shard
\* order: those of reading the files one after the other (which is one of
\* the runs).
C26_SameOutcomeEveryRun ==
  (sgd.deterministic_ /\ main.pc = "done") => ReadOutcome = InOrderOutcome

---------------------------------------------------------------------------
(* Shard::Builder on its own: a builder of some max_size_ is handed rows   *)
(* of every size, one AddRow after the other.  shards is the shards_ of    *)
(* the builder, main holds max_size_ and the number of calls made, command *)
(* the arguments of the last call.                                         *)

\* The rows handed to AddRow differ in size only: J's 0..(n - 1).
BuilderRows == {[j \in 1..n |-> j - 1] : n \in 0..MaxRowSize}

InitBuilder ==
  /\ fm = NewMap(MapKeys)
  /\ fmEver = {}
  /\ fmGone = {}
  /\ InitThreads
  /\ product_map = NewMap(JProducts)
  /\ j_size = 0
  /\ model = NewModel
  /\ training_majorizer = NewMajorizer
  /\ holdout_majorizer = NewMajorizer
  /\ sgd = NewSgd
  /\ training = NewShardSet
  /\ holdout = NewShardSet
  /\ dependees = <<>>
  /\ settings = [allow_undo |-> FALSE, has_data |-> FALSE, l1 |-> 0]
  /\ aborted = FALSE
  /\ op = "Builder"
  /\ command = NoConfig
  /\ renumbering = NoRenumbering
  /\ scores = <<>>
  /\ ncommands = 0
  /\ pass = NoPass
  /\ shards = <<>>
  /\ stats_ = StatsReset(0)
  /\ shard_dependees = <<>>
  /\ pool = [contents |-> <<>>, num_grabbed |-> 0, max_size |-> 0]
  /\ tasks = <<>>
  /\ worker = [t \in 1..kThreadCount |-> [pc |-> "wait"]]
  /\ main \in [pc : {"build"}, i : {0}, max_size_ : 1..ReadMaxShardSize]
  /\ applied = NoRenumbering
  /\ IdleScript

\* builder.AddRow(js, 1, id) with the next row id.
AddRow(js) ==
  /\ main.pc = "build"
  /\ main.i < MaxBuilderRows
  /\ shards' = BuilderAddRow(shards, main.max_size_, js, 1, main.i)
  /\ main' = [main EXCEPT !.i = @ + 1]
  /\ op' = "AddRow"
  /\ command' = [js |-> js, y |-> 1, id |-> main.i]
  /\ UNCHANGED <<fm, fmEver, fmGone, mu, pc, tkey, tj, rets, ncalls,
                 product_map, j_size, model, training_majorizer,
                 holdout_majorizer, sgd, training, holdout, dependees,
                 settings, aborted, renumbering, scores, ncommands, pass,
                 stats_, shard_dependees, pool, tasks, worker, applied,
                 scriptVars>>

NextBuilder == \E js \in BuilderRows : AddRow(js)

SpecBuilder == InitBuilder /\ [][NextBuilder]_vars

\* The row handed to the AddRow that is being made.
AddedRow == [js |-> command'.js, y |-> command'.y, id |-> command'.id]

\* C28, as stated: every shard of the builder holds at most max_size_
\* entries unless its first row alone holds more, and a row that would push
\* a shard that has rows over max_size_ becomes the first row of a new shard.
C28_ShardWithinLimit ==
  /\ [](main.pc = "build" =>
          \A s \in 1..Len(shards) :
            \/ ShardXjBoolCount(shards[s]) <= main.max_size_
            \/ Len(shards[s][1].js) > main.max_size_)
  /\ [][(/\ main.pc = "build"
         /\ Len(shards) > 0
         /\ Len(shards[Len(shards)]) > 0
         /\ ShardXjBoolCount(shards[Len(shards)]) + Len(command'.js)
              > main.max_size_)
        => shards' = Append(shards, <<AddedRow>>)]_vars

\* C28, amended: every shard of the builder holds at most max_size_ entries
\* unless all its entries are those of its last row, the rows before it being
\* empty, and a row that would push a shard that has entries over max_size_
\* becomes the first row of a new shard.
C28_ShardWithEntriesWithinLimit ==
  /\ [](main.pc = "build" =>
          \A s \in 1..Len(shards) :
            \/ ShardXjBoolCount(shards[s]) <= main.max_size_
            \/ /\ Len(shards[s][Len(shards[s])].js) > main.max_size_
               /\ \A i \in 1..(Len(shards[s]) - 1) :
                    Len(shards[s][i].js) = 0)
  /\ [][(/\ main.pc = "build"
         /\ Len(shards) > 0
         /\ ShardXjBoolCount(shards[Len(shards)]) > 0
         /\ ShardXjBoolCount(shards[Len(shards)]) + Len(command'.js)
              > main.max_size_)
        => shards' = Append(shards, <<AddedRow>>)]_vars

\* Four rows have been added: the first alone exceeded max_size_ and has a
\* shard to itself, the next two filled a shard up to max_size_ and the last
\* was rolled over into a third shard.
C28_Witness ==
  /\ main.pc = "build"
  /\ main.i = MaxBuilderRows
  /\ Len(shards) = 3
  /\ Len(shards[1]) = 1
  /\ ShardXjBoolCount(shards[1]) > main.max_size_
  /\ Len(shards[2]) = 2
  /\ ShardXjBoolCount(shards[2]) = main.max_size_
  /\ Len(shards[3][1].js) > 0

---------------------------------------------------------------------------
(* CooMatrix and CsrMatrix on their own: a CooMatrix of some row count is  *)
(* filled by SetTrue as AddNewProductFeatures fills coo_dependees, in rows *)
(* below its row count and in any order, and is then sorted, made into a   *)
(* CsrMatrix, made back into a CooMatrix and sorted again.  command is the *)
(* CooMatrix that is filled, dependees the CsrMatrix made of it, scores    *)
(* the CooMatrix that comes back.                                          *)

MaxCooRows == 3       \* row count of the CooMatrix
MaxCooColumns == 3    \* columns its entries are taken from
MaxCooEntries == 3    \* SetTrue calls on it

\* CooMatrix::Equals
Equals(lhs, rhs) ==
  lhs.row_count = rhs.row_count /\ lhs.contents = rhs.contents

InitCoo ==
  /\ fm = NewMap(MapKeys)
  /\ fmEver = {}
  /\ fmGone = {}
  /\ InitThreads
  /\ product_map = NewMap(JProducts)
  /\ j_size = 0
  /\ model = NewModel
  /\ training_majorizer = NewMajorizer
  /\ holdout_majorizer = NewMajorizer
  /\ sgd = NewSgd
  /\ training = NewShardSet
  /\ holdout = NewShardSet
  /\ dependees = <<>>
  /\ settings = [allow_undo |-> FALSE, has_data |-> FALSE, l1 |-> 0]
  /\ aborted = FALSE
  /\ op = "CooMatrix"
  /\ \E row_count \in 0..MaxCooRows :
       command = ToCooMatrix(SetRowCount(<<>>, row_count))
  /\ renumbering = NoRenumbering
  /\ scores = <<>>
  /\ ncommands = 0
  /\ pass = NoPass
  /\ IdleStats
  /\ IdleScript

CooOthers == <<fm, fmEver, fmGone, mu, pc, tkey, tj, rets, ncalls,
               product_map, j_size, model, training_majorizer,
               holdout_majorizer, sgd, training, holdout, settings, aborted,
               renumbering, ncommands, pass, restVars>>

\* coo_dependees.SetTrue(row, column), row being a J of the matrix.
CooSetTrue(row, column) ==
  /\ op \in {"CooMatrix", "SetTrue"}
  /\ Len(command.contents) < MaxCooEntries
  /\ row < command.row_count
  /\ command' = SetTrue(command, row, column)
  /\ op' = "SetTrue"
  /\ UNCHANGED <<dependees, scores>>
  /\ UNCHANGED CooOthers

\* Sort, FromCooMatrix, ToCooMatrix, Sort.
CooRoundTrip ==
  /\ op \in {"CooMatrix", "SetTrue"}
  /\ dependees' = FromCooMatrix(Sort(command))
  /\ scores' = Sort(ToCooMatrix(dependees'))
  /\ op' = "ToCooMatrix"
  /\ UNCHANGED command
  /\ UNCHANGED CooOthers

NextCoo ==
  \/ \E row \in 0..(MaxCooRows - 1), column \in 0..(MaxCooColumns - 1) :
       CooSetTrue(row, column)
  \/ CooRoundTrip

SpecCoo == InitCoo /\ [][NextCoo]_vars

---------------------------------------------------------------------------
(* The stand-alone FeatureMapBase with its const lookups: next to          *)
(* FeatureToJ, RemoveAndRenumberJs and SyncJToFeatureMap the caller asks   *)
(* HasFeature and FeatureToJConst about keys it never handed to            *)
(* FeatureToJ.  op and command hold the last lookup and what it returned,  *)
(* ncommands counts the lookups.                                           *)

MaxLookups == 2       \* HasFeature and FeatureToJConst calls on the map

LookupOthers == <<product_map, j_size, model, training_majorizer,
                  holdout_majorizer, sgd, training, holdout, dependees,
                  settings, aborted, renumbering, scores, pass>>

\* fm.HasFeature(k) of a key that was never interned.
MapHasFeature(k) ==
  /\ fm.ok
  /\ k \notin fmEver
  /\ ncommands < MaxLookups
  /\ fm' = HasFeature(fm, k).map
  /\ op' = "HasFeature"
  /\ command' = [key |-> k, found |-> HasFeature(fm, k).has]
  /\ ncommands' = ncommands + 1
  /\ UNCHANGED <<fmEver, fmGone>>
  /\ UNCHANGED thrVars
  /\ UNCHANGED LookupOthers
  /\ UNCHANGED restVars

\* fm.FeatureToJConst(k) of a key that was never interned.
MapFeatureToJConst(k) ==
  /\ fm.ok
  /\ k \notin fmEver
  /\ ncommands < MaxLookups
  /\ fm' = FeatureToJConst(fm, k).map
  /\ op' = "FeatureToJConst"
  /\ command' = [key |-> k,
                  found |-> FeatureToJConst(fm, k).j # kInvalidJ]
  /\ ncommands' = ncommands + 1
  /\ UNCHANGED <<fmEver, fmGone>>
  /\ UNCHANGED thrVars
  /\ UNCHANGED LookupOthers
  /\ UNCHANGED restVars

NextLookup ==
  \/ \E k \in MapKeys : MapIntern(k)
  \/ \E js \in SUBSET Range(0, Size(fm)) : MapRemove(js)
  \/ MapSync
  \/ \E k \in MapKeys : MapHasFeature(k)
  \/ \E k \in MapKeys : MapFeatureToJConst(k)

SpecLookup == InitMap /\ [][NextLookup]_vars

\* C30: a HasFeature or FeatureToJConst of a never interned key answers "not
\* there" and leaves Size() as it was, and with any number of such lookups
\* made every SyncJToFeatureMap and RemoveAndRenumberJs passes its CHECKs and
\* leaves a map in which each live key is found under its J.
C30_LookupsArePure ==
  /\ [][ncommands' # ncommands =>
          /\ Size(fm') = Size(fm)
          /\ ~command'.found]_vars
  /\ [](fm.ok)
  /\ [](fm.synced =>
          \A k \in LiveKeys :
            /\ JToFeatureDefined(fm, fm.tab[k].j)
            /\ JToFeature(fm, fm.tab[k].j) = k)

---------------------------------------------------------------------------
(* Keys that RemoveAndRenumberJs has removed from the stand-alone map.     *)

\* C31: a key that RemoveAndRenumberJs removes is absent from the map it
\* leaves: HasFeature answers false for it, and FeatureToJ on it would insert
\* it again under the next J of the sequence, a valid one.
C31_RemovedKeyIsAbsent ==
  [][fm'.ok =>
       \A k \in fmGone' \ fmGone :
         /\ ~HasFeature(fm', k).has
         /\ FeatureToJ(fm', k).j # kInvalidJ
         /\ FeatureToJ(fm', k).j = Size(fm')]_vars

---------------------------------------------------------------------------
(* DataReader::AddRow followed by RowExtender::ExtendSparseBool on one     *)
(* line of a data file.  command is the line with the data_reader option   *)
(* that matters, product_map and dependees are those of a world in which   *)
(* the atoms and some products exist, scores is the row: first as AddRow   *)
(* stores it, then as ExtendSparseBool extends it.                         *)

MaxLineFeatures == 3  \* features on one line of a data file

\* J 0 is the bias, J's 1..3 are the atoms 0..2, J 4 is the product of J 1
\* and J 2 and, in the second matrix, J 5 the product of J 3 and J 4.
DependeesChoices ==
  {StatsDependees, <<<<>>, <<4>>, <<4>>, <<5>>, <<5>>, <<>>>>}

ExtendMap ==
  InternAll(NewMap(JProducts), <<{}, {0}, {1}, {2}, {0, 1}, {0, 1, 2}>>,
            <<>>).map

\* std::sort of the features of a line.
RECURSIVE SortFeatures(_)
SortFeatures(fs) ==
  IF Len(fs) = 0 THEN <<>>
  ELSE LET i == CHOOSE i \in 1..Len(fs) : \A k \in 1..Len(fs) : fs[i] <= fs[k]
       IN <<fs[i]>> \o SortFeatures([k \in 1..(Len(fs) - 1) |->
                                       IF k < i THEN fs[k] ELSE fs[k + 1]])

\* std::unique of the sorted features.
RECURSIVE Unique(_)
Unique(fs) ==
  IF Len(fs) <= 1 THEN fs
  ELSE IF fs[1] = fs[2] THEN Unique(Tail(fs))
  ELSE <<fs[1]>> \o Unique(Tail(fs))

\* The buffer_row of DataReader::AddRow for a line: the bias spec and the
\* spec of the atoms over the sorted features, de-duplicated when the
\* data_reader asks for it.
BufferRow(m, line) ==
  LET sorted == SortFeatures(line.bool_features)
      kept == IF line.remove_duplicate_features_in_each_row
              THEN Unique(sorted) ELSE sorted
  IN InternAll(m, <<{}>> \o [i \in 1..Len(kept) |-> {kept[i]}], <<>>).js

InitExtend ==
  /\ fm = NewMap(MapKeys)
  /\ fmEver = {}
  /\ fmGone = {}
  /\ InitThreads
  /\ product_map = ExtendMap
  /\ j_size = 0
  /\ model = NewModel
  /\ training_majorizer = NewMajorizer
  /\ holdout_majorizer = NewMajorizer
  /\ sgd = NewSgd
  /\ training = NewShardSet
  /\ holdout = NewShardSet
  /\ dependees \in DependeesChoices
  /\ settings = [allow_undo |-> FALSE, has_data |-> TRUE, l1 |-> 0]
  /\ aborted = FALSE
  /\ op = "line"
  /\ command \in
       [bool_features : UNION {[1..n -> Atoms] : n \in 0..MaxLineFeatures},
        remove_duplicate_features_in_each_row : BOOLEAN]
  /\ renumbering = NoRenumbering
  /\ scores = <<>>
  /\ ncommands = 0
  /\ pass = NoPass
  /\ IdleStats
  /\ IdleScript

ExtendOthers == <<fm, fmEver, fmGone, mu, pc, tkey, tj, rets, ncalls,
                  product_map, j_size, model, training_majorizer,
                  holdout_majorizer, sgd, training, holdout, dependees,
                  settings, aborted, command, renumbering, ncommands, pass,
                  restVars>>

\* DataReader::AddRow of the line.
ExtendAddRow ==
  /\ op = "line"
  /\ scores' = BufferRow(product_map, command)
  /\ op' = "AddRow"
  /\ UNCHANGED ExtendOthers

\* RowExtender::ResetRow of the stored row and SparseBool().
ExtendRow ==
  /\ op = "AddRow"
  /\ scores' = SparseBool(dependees, scores)
  /\ op' = "ExtendSparseBool"
  /\ UNCHANGED ExtendOthers

NextExtend == ExtendAddRow \/ ExtendRow

SpecExtend == InitExtend /\ [][NextExtend]_vars

\* C32: the extended row holds a product J only with every parent of it, and
\* holds it once at most.
C32_ProductOnlyWithItsFactors ==
  op = "ExtendSparseBool" =>
    \A c \in 0..(Len(dependees) - 1) :
      Parents(dependees, c) # {} =>
        /\ c \in SeqToSet(scores) =>
             Parents(dependees, c) \subseteq SeqToSet(scores)
        /\ Cardinality({i \in 1..Len(scores) : scores[i] = c}) <= 1

---------------------------------------------------------------------------
(* PrioritySumIterator on its own, as AddNewProductFeatures drives it:     *)
(* best_js is made of a score for each J, sorted from largest to smallest, *)
(* and Next() is called while HasNext().  scores is j_to_score; main holds *)
(* best_js as v, the priority queue pq and the pairs returned so far, each *)
(* with its sum and ordered as AddNewProductFeatures orders it.            *)

NumPsiJs == 4         \* J's of the model that is explored
MaxPsiScore == 2      \* largest score of a J

\* best_js of AddNewProductFeatures.
BestJs(j_to_score) ==
  SortedDown({<<j_to_score[j + 1], j>> : j \in 0..(Len(j_to_score) - 1)})

InitPsi ==
  /\ fm = NewMap(MapKeys)
  /\ fmEver = {}
  /\ fmGone = {}
  /\ InitThreads
  /\ product_map = NewMap(JProducts)
  /\ j_size = 0
  /\ model = NewModel
  /\ training_majorizer = NewMajorizer
  /\ holdout_majorizer = NewMajorizer
  /\ sgd = NewSgd
  /\ training = NewShardSet
  /\ holdout = NewShardSet
  /\ dependees = <<>>
  /\ settings = [allow_undo |-> FALSE, has_data |-> TRUE, l1 |-> 0]
  /\ aborted = FALSE
  /\ op = "PrioritySumIterator"
  /\ command = NoConfig
  /\ renumbering = NoRenumbering
  /\ scores \in [1..NumPsiJs -> 0..MaxPsiScore]
  /\ ncommands = 0
  /\ pass = NoPass
  /\ shards = <<>>
  /\ stats_ = StatsReset(0)
  /\ shard_dependees = <<>>
  /\ pool = [contents |-> <<>>, num_grabbed |-> 0, max_size |-> 0]
  /\ tasks = <<>>
  /\ worker = [t \in 1..kThreadCount |-> [pc |-> "wait"]]
  /\ main = [pc |-> "psi", v |-> BestJs(scores),
             pq |-> NewPsi(BestJs(scores)), returned |-> <<>>]
  /\ applied = NoRenumbering
  /\ IdleScript

\* psi.Next() and the swap that puts the smaller J first.
PsiNext ==
  /\ main.pc = "psi"
  /\ main.pq # {}
  /\ LET e == Top(main.pq)
         first == main.v[e[2] + 1][2]
         second == main.v[e[3] + 1][2]
     IN main' = [main EXCEPT
                   !.pq = InsertNext(main.v, main.pq \ {e}, e[2], e[3]),
                   !.returned =
                      Append(@, [sum |-> e[1],
                                 first |-> IF first > second THEN second
                                           ELSE first,
                                 second |-> IF first > second THEN first
                                            ELSE second])]
  /\ UNCHANGED <<shards, stats_, shard_dependees, pool, tasks, worker,
                 applied>>
  /\ UNCHANGED mapVars
  /\ UNCHANGED thrVars
  /\ UNCHANGED worldVars
  /\ UNCHANGED scriptVars

NextPsi == PsiNext

SpecPsi == InitPsi /\ [][NextPsi]_vars

\* C33: the pairs come in non-increasing order of the sum of their scores,
\* no unordered pair comes twice and no J is paired with itself.
C33_PairsInOrderOfSum ==
  main.pc = "psi" =>
    /\ \A i \in 1..Len(main.returned) :
         /\ main.returned[i].first # main.returned[i].second
         /\ main.returned[i].sum = scores[main.returned[i].first + 1]
                                   + scores[main.returned[i].second + 1]
    /\ \A i, k \in 1..Len(main.returned) :
         i < k =>
           /\ main.returned[i].sum >= main.returned[k].sum
           /\ <<main.returned[i].first, main.returned[i].second>>
                # <<main.returned[k].first, main.returned[k].second>>

\* Every pair of four J's with three different scores has been returned.
C33_Witness ==
  /\ main.pc = "psi"
  /\ main.pq = {}
  /\ Len(main.returned) = (NumPsiJs * (NumPsiJs - 1)) \div 2
  /\ Cardinality({scores[j] : j \in 1..NumPsiJs}) = 3

\* C34: of two pairs with the same sum the one with the smaller
\* <<j1, j2>> comes first.
C34_TiesAscending ==
  main.pc = "psi" =>
    \A i, k \in 1..Len(main.returned) :
      (i < k /\ main.returned[i].sum = main.returned[k].sum) =>
        PairLess(<<main.returned[i].first, main.returned[i].second>>,
                 <<main.returned[k].first, main.returned[k].second>>)

---------------------------------------------------------------------------
(* The loop of FeaturePruning::ComputePruning turn by turn.  dependees is  *)
(* the dependees matrix, scores is j_to_score, command the config; main    *)
(* holds js_queue as queue, removed_js as removed and triggered_by.        *)

PruneScores == {0, 1, kInfinity}

PruneLoopConfigs ==
  [has_score_threshold : BOOLEAN, score_threshold : {0},
   has_top_count : BOOLEAN, top_count : {2}]

PruneJs == 0..(RowCount(dependees) - 1)

InitPrune ==
  /\ fm = NewMap(MapKeys)
  /\ fmEver = {}
  /\ fmGone = {}
  /\ InitThreads
  /\ product_map = ExtendMap
  /\ j_size = 0
  /\ model = NewModel
  /\ training_majorizer = NewMajorizer
  /\ holdout_majorizer = NewMajorizer
  /\ sgd = NewSgd
  /\ training = NewShardSet
  /\ holdout = NewShardSet
  /\ dependees \in DependeesChoices
  /\ settings = [allow_undo |-> FALSE, has_data |-> TRUE, l1 |-> 0]
  /\ aborted = FALSE
  /\ op = "prune_features"
  /\ command \in PruneLoopConfigs
  /\ renumbering = NoRenumbering
  /\ scores \in [1..RowCount(dependees) -> PruneScores]
  /\ ncommands = 0
  /\ pass = NoPass
  /\ shards = <<>>
  /\ stats_ = StatsReset(0)
  /\ shard_dependees = <<>>
  /\ pool = [contents |-> <<>>, num_grabbed |-> 0, max_size |-> 0]
  /\ tasks = <<>>
  /\ worker = [t \in 1..kThreadCount |-> [pc |-> "wait"]]
  /\ main = [pc |-> "loop", queue |-> PruneJs, removed |-> {},
             triggered_by |-> [j \in PruneJs |-> {}]]
  /\ applied = NoRenumbering
  /\ IdleScript

PruneOthers == <<shards, stats_, shard_dependees, pool, tasks, worker,
                 applied, scriptVars>>

PruneState ==
  [queue |-> main.queue, removed |-> main.removed,
   triggered_by |-> main.triggered_by]

\* The breaks at the head of the loop, that of the empty queue first.
PruneStops ==
  IF main.queue = {} THEN TRUE ELSE Stops(PruneState, command, scores)

\* One turn of the while loop: no break, and the J on top is popped.
PruneTurn ==
  /\ main.pc = "loop"
  /\ ~PruneStops
  /\ \E j \in Tops(PruneState, scores) :
       \E st \in {Pop(PruneState, dependees, j)} :
         main' = [pc |-> "loop", queue |-> st.queue, removed |-> st.removed,
                  triggered_by |-> st.triggered_by]
  /\ UNCHANGED PruneOthers
  /\ UNCHANGED mapVars
  /\ UNCHANGED thrVars
  /\ UNCHANGED worldVars

\* A break at the head of the loop.
PruneBreak ==
  /\ main.pc = "loop"
  /\ PruneStops
  /\ main' = [main EXCEPT !.pc = "done"]
  /\ UNCHANGED PruneOthers
  /\ UNCHANGED mapVars
  /\ UNCHANGED thrVars
  /\ UNCHANGED worldVars

NextPrune == PruneTurn \/ PruneBreak

SpecPrune == InitPrune /\ [][NextPrune]_vars

\* The loop is run by one thread that does nothing else: it takes its next
\* turn as long as it has one.
SpecPruneLive == SpecPrune /\ WF_vars(NextPrune)

\* The J's that stand blocked by a child that is not removed.
Blocked ==
  {j \in PruneJs :
     \E c \in PruneJs \ main.removed : j \in main.triggered_by[c]}

\* C35: the loop comes to its break; the removal of a J puts every J that
\* was blocked by it back into the queue; and at the break every J is
\* removed, or in the queue, or blocked by a child that is not removed, and
\* only one of the three.
C35_PruningTerminates ==
  /\ <>(main.pc = "done")
  /\ [][\A j \in main'.removed \ main.removed :
          /\ main.triggered_by[j] \subseteq main'.queue
          /\ main'.triggered_by[j] = {}]_vars
  /\ [](main.pc = "done" =>
          /\ main.removed \cup main.queue \cup Blocked = PruneJs
          /\ main.removed \cap main.queue = {}
          /\ main.removed \cap Blocked = {}
          /\ main.queue \cap Blocked = {}
          /\ \A c \in PruneJs :
               \A j \in main.triggered_by[c] :
                 c \notin main.removed
                 /\ c \in SeqToSet(GetRow(dependees, j)))

\* The loop has ended after a parent was blocked, put back when its child
\* was removed, and removed itself, while another J is still blocked.
C35_Witness ==
  /\ main.pc = "done"
  /\ \E j \in main.removed :
       SeqToSet(GetRow(dependees, j)) # {}
  /\ Blocked # {}
  /\ main.queue # {}

---------------------------------------------------------------------------
(* concurrency::ParFor with the FixedSizeThreadPool and its WaitQueue      *)
(* spelled out: the constructor starts kThreadCount threads that loop on   *)
(* tasks_.Wait, Execute pushes a task, and the destructor, which ends the  *)
(* ParFor, calls StopWaiters and joins the threads.  tasks is contents_ of *)
(* the queue; worker[t] is thread t, thread 0 being the caller; main holds *)
(* the caller's position, is_stopped_ and, for each item, the threads that *)
(* began f(item) and the number of f(item) that returned.                  *)

ParItems == 3         \* largest collection handed to ParFor

\* A Wait that looks at is_stopped_ before it looks at the queue.
WaitStopsFirst(contents_, is_stopped_) ==
  IF is_stopped_ THEN "stopped"
  ELSE IF Len(contents_) > 0 THEN "task" ELSE "blocked"

\* WaitQueue::Wait: what the waiter finds when it holds the mutex.
WaitQueueWait(contents_, is_stopped_) ==
  IF Len(contents_) > 0 THEN "task"
  ELSE IF is_stopped_ THEN "stopped" ELSE "blocked"

InitParFor ==
  /\ fm = NewMap(MapKeys)
  /\ fmEver = {}
  /\ fmGone = {}
  /\ InitThreads
  /\ InitWorld
  /\ shards = <<>>
  /\ stats_ = StatsReset(0)
  /\ shard_dependees = <<>>
  /\ pool = [contents |-> <<>>, num_grabbed |-> 0, max_size |-> 0]
  /\ tasks = <<>>
  /\ worker = [t \in SgdThreads |-> [pc |-> "wait", item |-> 0]]
  /\ \E n \in 1..ParItems, deterministic \in BOOLEAN :
       main = [pc |-> ParFor(deterministic), i |-> 0, items |-> n,
               deterministic |-> deterministic, is_stopped_ |-> FALSE,
               began |-> [item \in 1..n |-> <<>>],
               returned |-> [item \in 1..n |-> 0]]
  /\ applied = NoRenumbering
  /\ IdleScript

ParForOthers == <<shards, stats_, shard_dependees, pool, applied, scriptVars>>

\* for (const auto& item : items) f(item): the caller enters f(item).
ParForSerial ==
  /\ main.pc = "serial"
  /\ worker[0].pc = "wait"
  /\ main.i < main.items
  /\ worker' = [worker EXCEPT ![0] = [pc |-> "run", item |-> main.i + 1]]
  /\ main' = [main EXCEPT !.i = @ + 1,
                          !.began[main.i + 1] = Append(@, 0)]
  /\ UNCHANGED tasks
  /\ UNCHANGED ParForOthers
  /\ UNCHANGED mapVars
  /\ UNCHANGED thrVars
  /\ UNCHANGED worldVars

\* The loop of the deterministic ParFor ends.
ParForSerialEnd ==
  /\ main.pc = "serial"
  /\ worker[0].pc = "wait"
  /\ main.i = main.items
  /\ main' = [main EXCEPT !.pc = "done"]
  /\ UNCHANGED <<tasks, worker>>
  /\ UNCHANGED ParForOthers
  /\ UNCHANGED mapVars
  /\ UNCHANGED thrVars
  /\ UNCHANGED worldVars

\* pool.Execute([&f, i] { f(*i); }): tasks_.push.
ParForExecute ==
  /\ main.pc = "execute"
  /\ main.i < main.items
  /\ tasks' = Append(tasks, main.i + 1)
  /\ main' = [main EXCEPT !.i = @ + 1]
  /\ UNCHANGED worker
  /\ UNCHANGED ParForOthers
  /\ UNCHANGED mapVars
  /\ UNCHANGED thrVars
  /\ UNCHANGED worldVars

\* ~FixedSizeThreadPool at the end of the block: tasks_.StopWaiters().
StopWaiters ==
  /\ main.pc = "execute"
  /\ main.i = main.items
  /\ main' = [main EXCEPT !.pc = "join", !.is_stopped_ = TRUE]
  /\ UNCHANGED <<tasks, worker>>
  /\ UNCHANGED ParForOthers
  /\ UNCHANGED mapVars
  /\ UNCHANGED thrVars
  /\ UNCHANGED worldVars

\* while (tasks_.Wait(&task)) task(): Wait returns true with the front task
\* and the thread enters it.
PoolThreadTask(t) ==
  /\ t # 0
  /\ worker[t].pc = "wait"
  /\ WaitQueueWait(tasks, main.is_stopped_) = "task"
  /\ worker' = [worker EXCEPT ![t] = [pc |-> "run", item |-> Head(tasks)]]
  /\ tasks' = Tail(tasks)
  /\ main' = [main EXCEPT !.began[Head(tasks)] = Append(@, t)]
  /\ UNCHANGED ParForOthers
  /\ UNCHANGED mapVars
  /\ UNCHANGED thrVars
  /\ UNCHANGED worldVars

\* Wait returns false and the thread leaves its loop.
PoolThreadExit(t) ==
  /\ t # 0
  /\ worker[t].pc = "wait"
  /\ WaitQueueWait(tasks, main.is_stopped_) = "stopped"
  /\ worker' = [worker EXCEPT ![t] = [pc |-> "exit", item |-> 0]]
  /\ UNCHANGED <<tasks, main>>
  /\ UNCHANGED ParForOthers
  /\ UNCHANGED mapVars
  /\ UNCHANGED thrVars
  /\ UNCHANGED worldVars

\* f(item) returns on thread t.
ItemReturns(t) ==
  /\ worker[t].pc = "run"
  /\ worker' = [worker EXCEPT ![t] = [pc |-> "wait", item |-> 0]]
  /\ main' = [main EXCEPT !.returned[worker[t].item] = @ + 1]
  /\ UNCHANGED tasks
  /\ UNCHANGED ParForOthers
  /\ UNCHANGED mapVars
  /\ UNCHANGED thrVars
  /\ UNCHANGED worldVars

\* for (thread& t : threads_) t.join(), and ParFor returns.
JoinThreads ==
  /\ main.pc = "join"
  /\ \A t \in 1..kThreadCount : worker[t].pc = "exit"
  /\ main' = [main EXCEPT !.pc = "done"]
  /\ UNCHANGED <<tasks, worker>>
  /\ UNCHANGED ParForOthers
  /\ UNCHANGED mapVars
  /\ UNCHANGED thrVars
  /\ UNCHANGED worldVars

NextParFor ==
  \/ ParForSerial
  \/ ParForSerialEnd
  \/ ParForExecute
  \/ StopWaiters
  \/ \E t \in 1..kThreadCount : PoolThreadTask(t)
  \/ \E t \in 1..kThreadCount : PoolThreadExit(t)
  \/ \E t \in SgdThreads : ItemReturns(t)
  \/ JoinThreads

SpecParFor == InitParFor /\ [][NextParFor]_vars

\* C36: no f(item) is begun twice; when ParFor has returned every f(item)
\* has been begun once and has returned; and with deterministic they are
\* begun by the caller, in the order of the collection, each after the one
\* before it has returned.
C36_EveryItemOnce ==
  /\ [](main.pc \in {"serial", "execute", "join", "done"} =>
          /\ \A item \in 1..main.items : Len(main.began[item]) <= 1
          /\ main.pc = "done" =>
               \A item \in 1..main.items :
                 Len(main.began[item]) = 1 /\ main.returned[item] = 1
          /\ main.deterministic =>
               \A item \in 1..main.items :
                 /\ SeqToSet(main.began[item]) \subseteq {0}
                 /\ Len(main.began[item]) = 1 =>
                      \A before \in 1..(item - 1) : main.returned[before] = 1)
  /\ [][main.deterministic =>
          \A item \in 1..main.items :
            Len(main'.began[item]) > Len(main.began[item]) =>
              \A other \in 1..main.items : main.returned[other] =
                                             Len(main.began[other])]_vars

\* A ParFor over three items has returned after three different pool
\* threads ran them.
C36_Witness ==
  /\ main.pc = "done"
  /\ ~main.deterministic
  /\ main.items = ParItems
  /\ Cardinality(UNION {SeqToSet(main.began[item]) : item \in 1..ParItems})
       = ParItems

\* A deterministic ParFor over three items has returned.
C36_WitnessSerial ==
  /\ main.pc = "done"
  /\ main.deterministic
  /\ main.items = ParItems

---------------------------------------------------------------------------
(* GradBoost::SyncModelWithWeights thread by thread, on training shards    *)
(* and a holdout shard, with the of_j_ of the pooled Majorizers and        *)
(* ParallelProcessColumns spelled out.  training and holdout hold the      *)
(* shards of Data::training_ and Data::holdout_; pool is majorizer_pool_;  *)
(* tasks and worker are the thread pool of the ParFor in ProcessShardSet,  *)
(* worker[0] being the caller, who runs ProcessRows itself when            *)
(* deterministic_ is set; main is the caller:                              *)
(*   pc  : the statement it is at                                          *)
(*   set : the shard set whose ProcessShardSet is under way                *)
(*   i   : the shards of it handed out so far                              *)
(*   n   : the SyncModelWithWeights that have returned                     *)
(* The reals of ProcessOneRow are counted in whole numbers: a row adds     *)
(* RowLoss to log_loss_ and RowDim1 to of_j_[j] for every J it holds.      *)

MaxSyncs == 2         \* SyncModelWithWeights calls that compute

\* What a row adds to of_j_[j]: Dim1Majorizer(a, A_wxy_1), never nothing.
RowDim1(wx, y) == 1 + RowLoss(wx, y)

\* Range(to).SplitEvenly(count), as the sequence of its [from, to) pairs.
SplitEvenly(to_, count) ==
  [i \in 1..count |-> [from |-> ((i - 1) * to_) \div count,
                       to |-> (i * to_) \div count]]

RECURSIVE SumOfJ(_, _)
SumOfJ(majorizers, j) ==
  IF Len(majorizers) = 0 THEN 0
  ELSE Head(majorizers).of_j[j + 1] + SumOfJ(Tail(majorizers), j)

\* A SumAndAssign without its SetZero.
SumAndAdd(of_j_, range, majorizers) ==
  [j1 \in 1..Len(of_j_) |->
     IF (j1 - 1) \in Range(range.from, range.to)
     THEN of_j_[j1] + SumOfJ(majorizers, j1 - 1) ELSE of_j_[j1]]

\* Majorizer::SumAndAssign: the of_j_ it leaves.
SumAndAssign(of_j_, range, majorizers) ==
  [j1 \in 1..Len(of_j_) |->
     IF (j1 - 1) \in Range(range.from, range.to)
     THEN SumOfJ(majorizers, j1 - 1) ELSE of_j_[j1]]

\* The ParFor of ParallelProcessColumns: SumAndAssign on every range; the
\* ranges share no J, so the order of the tasks makes no difference.
RECURSIVE SumRanges(_, _, _)
SumRanges(of_j_, ranges, majorizers) ==
  IF Len(ranges) = 0 THEN of_j_
  ELSE CHOOSE out \in {SumRanges(summed, Tail(ranges), majorizers) :
                         summed \in {SumAndAssign(of_j_, Head(ranges),
                                                  majorizers)}} : TRUE

\* FixedSizeObjectPool::NumAvailable
NumAvailable(pl) == pl.max_size - pl.num_grabbed

\* while (majorizer_pool_.NumAvailable() > 0) push_back(Get()):
\* [pool, thread_majorizers].
RECURSIVE GetAvailable(_, _)
GetAvailable(pl, got) ==
  IF NumAvailable(pl) > 0
  THEN CHOOSE out \in {GetAvailable(g.pool, Append(got, g.result)) :
                         g \in {PoolGet(pl, PooledMajorizer)}} : TRUE
  ELSE [pool |-> pl, thread_majorizers |-> got]

\* for (Majorizer* m : thread_majorizers) majorizer_pool_.Retire(m)
RECURSIVE RetireAll(_, _)
RetireAll(pl, n) == IF n = 0 THEN pl ELSE RetireAll(PoolRetire(pl), n - 1)

\* GradBoost::ParallelProcessColumns: [pool, majorizer].
ParallelProcessColumns(pl, majorizer, size) ==
  LET got == GetAvailable(pl, <<>>)
  IN [pool |-> RetireAll(got.pool, Len(got.thread_majorizers)),
      majorizer |->
        [majorizer EXCEPT
           !.of_j = SumRanges(@, SplitEvenly(size, kThreadCount),
                              got.thread_majorizers),
           !.log_loss = SumLogLoss(got.thread_majorizers)]]

\* row_offsets[i] of ProcessShardSet, shards counted from 1.
RECURSIVE ShardRowOffset(_, _)
ShardRowOffset(sh, i) ==
  IF i = 1 THEN 0 ELSE ShardRowOffset(sh, i - 1) + Len(sh[i - 1])

RECURSIVE AllRows(_)
AllRows(sh) == IF Len(sh) = 0 THEN <<>> ELSE Head(sh) \o AllRows(Tail(sh))

\* The shards of the set that main.set names.
SetShards(set) == IF set = "training" THEN training.shards ELSE holdout.shards

InitSync ==
  /\ fm = NewMap(MapKeys)
  /\ fmEver = {}
  /\ fmGone = {}
  /\ InitThreads
  /\ product_map = NewMap(JProducts)
  /\ j_size = RowCount(StatsDependees)
  /\ \E tr \in [1..NumShards -> ShardChoices], ho \in [1..1 -> ShardChoices] :
       /\ training = [shards |-> tr]
       /\ holdout = [shards |-> ho]
       /\ model = InitPerShards(ModelSetSize(NewModel,
                                             RowCount(StatsDependees)),
                                Len(AllRows(tr)), Len(AllRows(ho)))
  /\ training_majorizer = MajorizerSetSize(NewMajorizer,
                                           RowCount(StatsDependees))
  /\ holdout_majorizer = MajorizerSetSize(NewMajorizer,
                                          RowCount(StatsDependees))
  /\ sgd = [weights_length |-> RowCount(StatsDependees),
            has_start_learning_rate |-> FALSE]
  /\ dependees = StatsDependees
  /\ settings = [allow_undo |-> FALSE, has_data |-> TRUE, l1 |-> 0]
  /\ aborted = FALSE
  /\ op = "fit_model_weights"
  /\ command = NoConfig
  /\ renumbering = NoRenumbering
  /\ scores = <<>>
  /\ ncommands = 0
  /\ pass = NoPass
  /\ shards = <<>>
  /\ stats_ = StatsReset(0)
  /\ shard_dependees = StatsDependees
  /\ pool = NewPool(kThreadCount, 0, PooledMajorizer)
  /\ tasks = <<>>
  /\ worker = [t \in SgdThreads |-> [pc |-> "wait"]]
  /\ \E deterministic \in BOOLEAN :
       main = [pc |-> "sync", set |-> "training", i |-> 0, n |-> 0,
               deterministic |-> deterministic]
  /\ applied = NoRenumbering
  /\ IdleScript

SyncOthers == <<fm, fmEver, fmGone, mu, pc, tkey, tj, rets, ncalls,
                product_map, j_size, sgd, training, holdout,
                dependees, settings, op, command, renumbering, scores,
                ncommands, pass,
                shards, stats_, shard_dependees, applied, scriptVars>>

\* SyncModelWithWeights up to the ParFor of ProcessShardSet(training).
SyncStart ==
  /\ main.pc = "sync"
  /\ ~aborted
  /\ IF pool.num_grabbed # 0
     THEN aborted' = TRUE /\ UNCHANGED main
     ELSE /\ UNCHANGED aborted
          /\ main' = IF model.synced_with_weights
                     THEN [main EXCEPT !.pc = "synced"]
                     ELSE [main EXCEPT !.pc = ParFor(main.deterministic),
                                       !.set = "training", !.i = 0]
  /\ UNCHANGED <<model, training_majorizer, holdout_majorizer, pool, tasks,
                 worker>>
  /\ UNCHANGED SyncOthers

\* ParFor: pool.Execute of the ProcessRows task of the next shard.
SyncExecute ==
  /\ main.pc = "execute"
  /\ main.i < Len(SetShards(main.set))
  /\ tasks' = Append(tasks, main.i + 1)
  /\ main' = [main EXCEPT !.i = @ + 1]
  /\ UNCHANGED <<model, training_majorizer, holdout_majorizer, aborted, pool,
                 worker>>
  /\ UNCHANGED SyncOthers

\* ParFor with deterministic: the caller enters ProcessRows of the next shard.
SyncSerial ==
  /\ main.pc = "serial"
  /\ worker[0].pc = "wait"
  /\ main.i < Len(SetShards(main.set))
  /\ worker' = [worker EXCEPT ![0] = [pc |-> "get", shard |-> main.i + 1]]
  /\ main' = [main EXCEPT !.i = @ + 1]
  /\ UNCHANGED <<model, training_majorizer, holdout_majorizer, aborted, pool,
                 tasks>>
  /\ UNCHANGED SyncOthers

\* tasks_.Wait(&task) of a pool thread returns a ProcessRows task.
SyncRowsWait(t) ==
  /\ t # 0
  /\ worker[t].pc = "wait"
  /\ Len(tasks) > 0
  /\ worker' = [worker EXCEPT ![t] = [pc |-> "get", shard |-> Head(tasks)]]
  /\ tasks' = Tail(tasks)
  /\ UNCHANGED <<model, training_majorizer, holdout_majorizer, aborted, pool,
                 main>>
  /\ UNCHANGED SyncOthers

\* Majorizer* majorizer = pool->Get()
SyncRowsGet(t) ==
  /\ worker[t].pc = "get"
  /\ pool.num_grabbed < pool.max_size
  /\ LET g == PoolGet(pool, PooledMajorizer)
     IN /\ pool' = g.pool
        /\ worker' = [worker EXCEPT ![t] = [pc |-> "rows",
                                            shard |-> worker[t].shard,
                                            row |-> 0,
                                            majorizer |-> g.result]]
  /\ UNCHANGED <<model, training_majorizer, holdout_majorizer, aborted, tasks,
                 main>>
  /\ UNCHANGED SyncOthers

\* ProcessOneRow of the next row of the shard: *wx = Dot(model_->w),
\* AddLogLoss and Add(j, ...) for every J of the extended row.
SyncOneRow(t) ==
  /\ worker[t].pc = "rows"
  /\ worker[t].row < Len(SetShards(main.set)[worker[t].shard])
  /\ \E row \in {SetShards(main.set)[worker[t].shard][worker[t].row + 1]} :
       \E js \in {SeqToSet(SparseBool(dependees, row.js))},
          wx \in {Dot(dependees, row.js, model.w)},
          at \in {ShardRowOffset(SetShards(main.set), worker[t].shard)
                   + worker[t].row + 1} :
         /\ model' = IF main.set = "training"
                     THEN [model EXCEPT !.training[at] = wx]
                     ELSE [model EXCEPT !.holdout[at] = wx]
         /\ worker' = [worker EXCEPT
                         ![t].majorizer.log_loss = @ + RowLoss(wx, row.y),
                         ![t].majorizer.of_j =
                            [j1 \in 1..Len(@) |->
                               IF (j1 - 1) \in js
                               THEN @[j1] + RowDim1(wx, row.y) ELSE @[j1]],
                         ![t].row = @ + 1]
  /\ UNCHANGED <<training_majorizer, holdout_majorizer, aborted, pool, tasks,
                 main>>
  /\ UNCHANGED SyncOthers

\* pool->Release(majorizer)
SyncRowsRelease(t) ==
  /\ worker[t].pc = "rows"
  /\ worker[t].row = Len(SetShards(main.set)[worker[t].shard])
  /\ pool' = PoolRelease(pool, worker[t].majorizer)
  /\ worker' = [worker EXCEPT ![t] = [pc |-> "wait"]]
  /\ UNCHANGED <<model, training_majorizer, holdout_majorizer, aborted, tasks,
                 main>>
  /\ UNCHANGED SyncOthers

\* The ParFor of ProcessShardSet has returned.
SyncJoined ==
  /\ main.pc \in {"execute", "serial"}
  /\ main.i = Len(SetShards(main.set))
  /\ Len(tasks) = 0
  /\ \A t \in SgdThreads : worker[t].pc = "wait"

\* ParallelProcessColumns(&training_majorizer_), then on to the holdout set.
SyncTrainingColumns ==
  /\ SyncJoined
  /\ main.set = "training"
  /\ LET out == ParallelProcessColumns(pool, training_majorizer, Len(model.w))
     IN /\ pool' = out.pool
        /\ training_majorizer' = out.majorizer
  /\ main' = [main EXCEPT !.set = "holdout", !.i = 0]
  /\ UNCHANGED <<model, holdout_majorizer, aborted, tasks, worker>>
  /\ UNCHANGED SyncOthers

\* ParallelProcessColumns(&holdout_majorizer_) and the rest of
\* SyncModelWithWeights: SetTotalLoss, synced_with_weights, the closing
\* CHECK_EQ.
SyncHoldoutColumns ==
  /\ SyncJoined
  /\ main.set = "holdout"
  /\ LET out == ParallelProcessColumns(pool, holdout_majorizer, Len(model.w))
         total_loss == training_majorizer.log_loss
                         + GetRegularizationLoss(settings.l1, model.w)
     IN /\ pool' = out.pool
        /\ holdout_majorizer' = out.majorizer
        /\ model' = [SetTotalLoss(model, total_loss) EXCEPT
                       !.synced_with_weights = TRUE]
        /\ IF out.pool.num_grabbed # 0
           THEN aborted' = TRUE /\ main' = [main EXCEPT !.pc = "aborted"]
           ELSE UNCHANGED aborted
                /\ main' = [main EXCEPT !.pc = "synced", !.n = @ + 1]
  /\ UNCHANGED <<training_majorizer, tasks, worker>>
  /\ UNCHANGED SyncOthers

\* training_majorizer_.UpdateMinimum of MakeOnePass, and the
\* SyncModelWithWeights that follows it.
SyncUpdate ==
  /\ main.pc = "synced"
  /\ main.n < MaxSyncs
  /\ \E delta \in Steps(model.w) :
       /\ InRange(Moved(model.w, delta))
       /\ model' = UpdateMinimum(model, training_majorizer, settings.l1,
                                 settings.allow_undo, delta, FALSE)
  /\ main' = [main EXCEPT !.pc = "sync"]
  /\ UNCHANGED <<training_majorizer, holdout_majorizer, aborted, pool, tasks,
                 worker>>
  /\ UNCHANGED SyncOthers

NextSync ==
  \/ SyncStart
  \/ SyncExecute
  \/ SyncSerial
  \/ \E t \in SgdThreads : SyncRowsWait(t)
  \/ \E t \in SgdThreads : SyncRowsGet(t)
  \/ \E t \in SgdThreads : SyncOneRow(t)
  \/ \E t \in SgdThreads : SyncRowsRelease(t)
  \/ SyncTrainingColumns
  \/ SyncHoldoutColumns
  \/ SyncUpdate

SpecSync == InitSync /\ [][NextSync]_vars

\* What the rows holding j add to of_j_[j] at the weights w.
RECURSIVE RowsDim1(_, _, _)
RowsDim1(rows, w, j) ==
  IF Len(rows) = 0 THEN 0
  ELSE (IF j \in SeqToSet(SparseBool(dependees, Head(rows).js))
        THEN RowDim1(Dot(dependees, Head(rows).js, w), Head(rows).y) ELSE 0)
       + RowsDim1(Tail(rows), w, j)

---------------------------------------------------------------------------
(* A FixedSizeObjectPool on its own, used by threads the way the program's *)
(* callers use one: a thread calls Get, perhaps several times as           *)
(* ParallelProcessColumns does, and hands every object it got back with    *)
(* Release or Retire.  pool is the pool, built as the program builds its   *)
(* pools with initial_num_created 0 or maximum_size; worker[t] is thread   *)
(* t: pc is "get" while it is inside Get and held counts the objects it    *)
(* holds; main.calls counts the calls of Get made.                         *)

PoolMaxSize == 2      \* largest maximum_size of the pool
PoolClients == 3      \* threads that use the pool
MaxPoolCalls == 5     \* calls of Get altogether

InitPool ==
  /\ fm = NewMap(MapKeys)
  /\ fmEver = {}
  /\ fmGone = {}
  /\ InitThreads
  /\ InitWorld
  /\ shards = <<>>
  /\ stats_ = StatsReset(0)
  /\ shard_dependees = <<>>
  /\ \E maximum_size \in 1..PoolMaxSize :
       \E initial_num_created \in {0, maximum_size} :
         pool = NewPool(maximum_size, initial_num_created, 0)
  /\ tasks = <<>>
  /\ worker = [t \in 1..PoolClients |-> [pc |-> "idle", held |-> 0]]
  /\ main = [calls |-> 0]
  /\ applied = NoRenumbering
  /\ IdleScript

PoolOthers == <<shards, stats_, shard_dependees, tasks, applied, scriptVars,
                fm, fmEver, fmGone, mu, pc, tkey, tj, rets, ncalls,
                product_map, j_size, model, training_majorizer,
                holdout_majorizer, sgd, training, holdout, dependees,
                settings, op, command, renumbering, scores, ncommands, pass>>

\* A thread calls Get and takes the mutex.
PoolCallGet(t) ==
  /\ ~aborted
  /\ worker[t].pc = "idle"
  /\ main.calls < MaxPoolCalls
  /\ worker' = [worker EXCEPT ![t].pc = "get"]
  /\ main' = [main EXCEPT !.calls = @ + 1]
  /\ UNCHANGED <<pool, aborted>>
  /\ UNCHANGED PoolOthers

\* available_.wait finds num_grabbed_ < max_size_ and Get returns an object.
PoolGetReturns(t) ==
  /\ ~aborted
  /\ worker[t].pc = "get"
  /\ pool.num_grabbed < pool.max_size
  /\ pool' = PoolGet(pool, 0).pool
  /\ worker' = [worker EXCEPT ![t] = [pc |-> "idle", held |-> @.held + 1]]
  /\ UNCHANGED <<main, aborted>>
  /\ UNCHANGED PoolOthers

\* Release(object) of an object the thread holds, with its CHECKs.
PoolCallRelease(t) ==
  /\ ~aborted
  /\ worker[t].pc = "idle"
  /\ worker[t].held > 0
  /\ IF pool.num_grabbed > 0 /\ pool.max_size > Len(pool.contents)
     THEN /\ pool' = PoolRelease(pool, 0)
          /\ worker' = [worker EXCEPT ![t].held = @ - 1]
          /\ UNCHANGED aborted
     ELSE /\ aborted' = TRUE
          /\ UNCHANGED <<pool, worker>>
  /\ UNCHANGED main
  /\ UNCHANGED PoolOthers

\* Retire(object) of an object the thread holds, with its CHECKs.
PoolCallRetire(t) ==
  /\ ~aborted
  /\ worker[t].pc = "idle"
  /\ worker[t].held > 0
  /\ IF pool.num_grabbed > 0
     THEN /\ pool' = PoolRetire(pool)
          /\ worker' = [worker EXCEPT ![t].held = @ - 1]
          /\ UNCHANGED aborted
     ELSE /\ aborted' = TRUE
          /\ UNCHANGED <<pool, worker>>
  /\ UNCHANGED main
  /\ UNCHANGED PoolOthers

NextPool ==
  \/ \E t \in 1..PoolClients : PoolCallGet(t)
  \/ \E t \in 1..PoolClients : PoolGetReturns(t)
  \/ \E t \in 1..PoolClients : PoolCallRelease(t)
  \/ \E t \in 1..PoolClients : PoolCallRetire(t)

SpecPool == InitPool /\ [][NextPool]_vars

\* The objects the threads hold.
RECURSIVE HeldUpTo(_)
HeldUpTo(t) == IF t = 0 THEN 0 ELSE worker[t].held + HeldUpTo(t - 1)

\* C38: whatever the interleaving of Get, Release and Retire, the objects
\* grabbed are never more than max_size, and neither are the objects that
\* exist through the pool, those the threads hold and those idle in it; no
\* CHECK of the pool fails.
C38_PoolWithinMaxSize ==
  /\ pool.num_grabbed = HeldUpTo(PoolClients)
  /\ pool.num_grabbed <= pool.max_size
  /\ pool.num_grabbed + Len(pool.contents) <= pool.max_size
  /\ ~aborted

\* A thread is held up in Get of a pool of two objects, both grabbed, one
\* of which has been in use before.
C38_Witness ==
  /\ pool.max_size = PoolMaxSize
  /\ pool.num_grabbed = pool.max_size
  /\ \E t \in 1..PoolClients : worker[t].pc = "get"
  /\ main.calls = MaxPoolCalls

---------------------------------------------------------------------------
(* Whether a Get returns.  A thread that can take a step takes one in the  *)
(* end, which is the weak fairness of the next-state relation; the row     *)
(* passes and the budget of Get calls are finite, so nothing more is       *)
(* needed.                                                                 *)

SpecSyncLive == SpecSync /\ WF_vars(NextSync)

\* C39: no thread stays in Get.  In the row passes of SyncModelWithWeights a
\* thread that calls majorizer_pool_.Get() never finds the pool exhausted,
\* and in the end every thread has left Get, has handed its Majorizer back
\* and is waiting for tasks, and the last SyncModelWithWeights has returned.
C39_GetReturns ==
  /\ [](\A t \in SgdThreads :
          worker[t].pc = "get" => pool.num_grabbed < pool.max_size)
  /\ <>[](/\ main.pc = "synced"
          /\ main.n = MaxSyncs
          /\ pool.num_grabbed = 0
          /\ \A t \in SgdThreads : worker[t].pc = "wait")

\* In the second SyncModelWithWeights a thread is in Get while another
\* holds the only Majorizer made so far.
C39_Witness ==
  /\ main.set = "training"
  /\ main.n = 1
  /\ pool.num_grabbed = 1
  /\ Len(pool.contents) = 0
  /\ \E t, u \in 1..kThreadCount :
       worker[t].pc = "rows" /\ worker[u].pc = "get"

\* RecalcStats under the same fairness.
SpecStatsLive == SpecStats /\ WF_vars(NextStats)

\* Every Get of RecalcStats returns: those of the ParFor's threads and the
\* kThreadCount of the closing loop.
RecalcStatsGetReturns ==
  <>[](/\ main.pc \in {"done", "renumbered"}
       /\ pool.num_grabbed = 0
       /\ \A t \in 1..kThreadCount : worker[t].pc = "wait")

\* A pool with fewer objects than threads, each thread holding one object
\* at most and handing it back.
PoolCallGetOne(t) == worker[t].held = 0 /\ PoolCallGet(t)

NextPoolOne ==
  \/ \E t \in 1..PoolClients : PoolCallGetOne(t)
  \/ \E t \in 1..PoolClients : PoolGetReturns(t)
  \/ \E t \in 1..PoolClients : PoolCallRelease(t)
  \/ \E t \in 1..PoolClients : PoolCallRetire(t)

SpecPoolLive == InitPool /\ [][NextPoolOne]_vars /\ WF_vars(NextPoolOne)

\* A thread held up in Get gets its object once a holder has handed one
\* back.
WaiterGetsObject ==
  \A t \in 1..PoolClients : (worker[t].pc = "get") ~> (worker[t].held = 1)

---------------------------------------------------------------------------
(* std::atomic<uint32> learning_rate_counter_ of Sgd at its full width.    *)
(* The counter is kept as its two 16-bit halves, hi * 2^16 + lo, the       *)
(* integers of TLC being signed 32-bit ones.  Sgd::MakeOnePass is          *)
(* followed thread by thread as far as the counter goes: ParFor hands the  *)
(* shards to the thread pool, ProcessShard takes a PerThread from          *)
(* per_thread_pool_, adds one to the counter after each row and releases   *)
(* the PerThread, and MakeOnePass ends with its CHECK_EQ on the counter.   *)
(* weights_ is left out: no statement that writes the counter reads it.    *)
(* sgd is the counter, shards the training shards, main the caller: pc, i  *)
(* the shards handed out in the pass under way, n the passes made.  A run  *)
(* starts at a count that earlier passes over the same rows leave: 0, or   *)
(* one of the last two multiples of the row count below 2^32.              *)

Half == 65536         \* 2^16
MaxCountPasses == 2   \* passes of one run

\* learning_rate_counter_.fetch_add(1): the value it leaves.
FetchAddOne(c) ==
  IF c.lo + 1 < Half THEN [c EXCEPT !.lo = @ + 1]
  ELSE [hi |-> (c.hi + 1) % Half, lo |-> 0]

\* processed_rows_count % RowCount()
CountModulo(c, row_count) ==
  ((c.hi % row_count) * (Half % row_count) + (c.lo % row_count)) % row_count

\* The largest multiple of row_count that a uint32 holds.
LastMultiple(row_count) ==
  [hi |-> Half - 1,
   lo |-> Half - 1
            - CountModulo([hi |-> Half - 1, lo |-> Half - 1], row_count)]

InitCount ==
  /\ fm = NewMap(MapKeys)
  /\ fmEver = {}
  /\ fmGone = {}
  /\ InitThreads
  /\ product_map = NewMap(JProducts)
  /\ j_size = 0
  /\ model = NewModel
  /\ training_majorizer = NewMajorizer
  /\ holdout_majorizer = NewMajorizer
  /\ training = NewShardSet
  /\ holdout = NewShardSet
  /\ dependees = StatsDependees
  /\ settings = [allow_undo |-> FALSE, has_data |-> TRUE, l1 |-> 0]
  /\ aborted = FALSE
  /\ op = "run_sgd"
  /\ command = NoConfig
  /\ renumbering = NoRenumbering
  /\ scores = <<>>
  /\ ncommands = 0
  /\ pass = NoPass
  /\ shards \in [1..NumShards -> ShardChoices]
  /\ \E last \in {LastMultiple(TrainingRowCount)} :
       sgd \in {[hi |-> 0, lo |-> 0], last,
                [last EXCEPT !.lo = @ - TrainingRowCount]}
  /\ stats_ = StatsReset(0)
  /\ shard_dependees = StatsDependees
  /\ pool = NewPool(kThreadCount, 0, 0)
  /\ tasks = <<>>
  /\ worker = [t \in 1..kThreadCount |-> [pc |-> "wait"]]
  /\ main = [pc |-> "execute", i |-> 0, n |-> 0]
  /\ applied = NoRenumbering
  /\ IdleScript

CountOthers == <<fm, fmEver, fmGone, mu, pc, tkey, tj, rets, ncalls,
                 product_map, j_size, model, training_majorizer,
                 holdout_majorizer, training, holdout, dependees, settings,
                 op, command, renumbering, scores, ncommands, pass,
                 shards, stats_, shard_dependees, applied, scriptVars>>

\* ParFor: pool.Execute of the ProcessShard task of the next shard.
CountExecute ==
  /\ main.pc = "execute"
  /\ main.i < Len(shards)
  /\ tasks' = Append(tasks, main.i + 1)
  /\ main' = [main EXCEPT !.i = @ + 1]
  /\ UNCHANGED <<sgd, aborted, pool, worker>>
  /\ UNCHANGED CountOthers

\* A pool thread takes a task: PerThread* per_thread = per_thread_pool_.Get()
CountGet(t) ==
  /\ main.pc = "execute"
  /\ worker[t].pc = "wait"
  /\ Len(tasks) > 0
  /\ pool.num_grabbed < pool.max_size
  /\ pool' = PoolGet(pool, 0).pool
  /\ worker' = [worker EXCEPT ![t] = [pc |-> "rows", shard |-> Head(tasks),
                                      row |-> 0]]
  /\ tasks' = Tail(tasks)
  /\ UNCHANGED <<sgd, aborted, main>>
  /\ UNCHANGED CountOthers

\* ProcessOneRow of the next row and learning_rate_counter_.fetch_add(1).
CountRow(t) ==
  /\ main.pc = "execute"
  /\ worker[t].pc = "rows"
  /\ worker[t].row < Len(shards[worker[t].shard])
  /\ sgd' = FetchAddOne(sgd)
  /\ worker' = [worker EXCEPT ![t].row = @ + 1]
  /\ UNCHANGED <<aborted, pool, tasks, main>>
  /\ UNCHANGED CountOthers

\* ApplyRegularization and per_thread_pool_.Release(per_thread).
CountRelease(t) ==
  /\ main.pc = "execute"
  /\ worker[t].pc = "rows"
  /\ worker[t].row = Len(shards[worker[t].shard])
  /\ pool' = PoolRelease(pool, 0)
  /\ worker' = [worker EXCEPT ![t] = [pc |-> "wait"]]
  /\ UNCHANGED <<sgd, aborted, tasks, main>>
  /\ UNCHANGED CountOthers

\* The ParFor has returned: CHECK_EQ(0, NumGrabbed()) and
\* CHECK_EQ(processed_rows_count % RowCount(), 0); the next pass follows.
CountCheck ==
  /\ main.pc = "execute"
  /\ main.i = Len(shards)
  /\ Len(tasks) = 0
  /\ \A t \in 1..kThreadCount : worker[t].pc = "wait"
  /\ IF pool.num_grabbed # 0 \/ CountModulo(sgd, TrainingRowCount) # 0
     THEN /\ aborted' = TRUE
          /\ main' = [main EXCEPT !.pc = "aborted"]
     ELSE /\ UNCHANGED aborted
          /\ main' = [pc |-> IF main.n + 1 < MaxCountPasses THEN "execute"
                             ELSE "done",
                      i |-> 0, n |-> main.n + 1]
  /\ UNCHANGED <<sgd, pool, tasks, worker>>
  /\ UNCHANGED CountOthers

NextCount ==
  \/ CountExecute
  \/ \E t \in 1..kThreadCount : CountGet(t)
  \/ \E t \in 1..kThreadCount : CountRow(t)
  \/ \E t \in 1..kThreadCount : CountRelease(t)
  \/ CountCheck

SpecCount == InitCount /\ [][NextCount]_vars

\* The rows processed in the pass under way.
RECURSIVE RowsDoneUpTo(_)
RowsDoneUpTo(t) ==
  IF t = 0 THEN 0
  ELSE (IF worker[t].pc = "rows" THEN worker[t].row ELSE 0)
       + RowsDoneUpTo(t - 1)

\* C40: when the ParFor of a pass has returned, whatever the count the
\* pass began with, learning_rate_counter_ is a multiple of the number of
\* training rows, and the CHECK_EQ at the end of MakeOnePass holds.
C40_CounterMultipleOfRows ==
  /\ ~aborted
  /\ (/\ main.i \in {0, Len(shards)}
      /\ Len(tasks) = 0
      /\ \A t \in 1..kThreadCount : worker[t].pc = "wait") =>
       CountModulo(sgd, TrainingRowCount) = 0

===========================================================================
